---- MODULE Spec2Model ----
(***************************************************************************)
(* A model of the data layer of the AWS SSO extender browser extension     *)
(* (src/src/extension/extension.ts, class Extension).                      *)
(*                                                                         *)
(* The browser's two key-value storage areas are modelled as partial maps  *)
(* from keys to parsed JSON values.  A call of an async storage method     *)
(* that the code awaits (or returns) takes effect at the step where the    *)
(* caller continues; a call whose promise the code drops (saveCustom,      *)
(* the saveData calls in queueIamLogin, update and saveAppProfiles, and    *)
(* in importUserConfig) is put in `pending` and lands at any later time,   *)
(* in any order: nothing in the code orders it against what follows.       *)
(***************************************************************************)
EXTENDS Integers, Sequences, FiniteSets, TLC

VARIABLES
  store,            \* store[a]: the records of storage area a, by key
  pending,          \* storage writes issued and not awaited, still in flight
  now,              \* the value Date.now() returns
  opsLeft,          \* how many mutating operations the caller may still start
  defaultSettings,  \* this.defaultSettings (an instance field, shared by reference)
  defaultCustom,    \* this.defaultCustom
  pc,               \* where the caller's current operation stands
  op,               \* the current operation: its name, arguments and locals
  ret,              \* what the last completed operation returned
  last,             \* the last completed saveUser / importUserConfig call (history)
  browser           \* the browser: its tabs and containers, and the requests it received

vars == <<store, pending, now, opsLeft, defaultSettings, defaultCustom, pc, op, ret, last, browser>>

----------------------------------------------------------------------------
(* Bounds of the model *)

\* How many mutating operations the caller starts: in the user store (Spec)
\* and in the specification of saving and loading (SpecLoad).  Date.now()
\* advances by one at the start of each.
MaxOps == 5
MaxLoadOps == 2

UserIds == {"u1", "u2"}
ProfileIds == {"p1", "p2"}
Areas == {"sync", "local"}

\* JavaScript's undefined and null where an id is expected.  No user id or
\* profile id is one of these strings.
Undefined == "undefined"
Null == "null"
\* JSON null where an object is expected
JNull == [jsonNull |-> TRUE]
EmptyObj == [k \in {} |-> TRUE]

Area(enableSync) == IF enableSync THEN "sync" ELSE "local"

----------------------------------------------------------------------------
(* Storage keys *)

KeySettings == <<"settings">>
KeyUsers == <<"users">>
KeyIam == <<"iam-logins">>
KeyUser(u) == <<"user", u>>
KeyCustom(u) == <<"custom", u>>
\* an application profile is stored under its bare id
KeyProfile(p) == <<p>>

Has(area, key) == key \in DOMAIN store[area]

----------------------------------------------------------------------------
(* The hard-coded default records *)

DefaultCustomLit ==
  [accounts |-> EmptyObj,
   accountsOverride |-> FALSE,
   displayName |-> "",
   sessionLabelSso |-> "{{user}}/{{profile}} @ {{account}}",
   sessionLabelIam |-> "{{user}}/{{role}} @ {{account}} via {{profile}}",
   colorDefault |-> "222f3e",
   colorFooter |-> TRUE,
   colorHeader |-> TRUE,
   labelFooter |-> TRUE,
   labelHeader |-> TRUE,
   labelIcon |-> FALSE,
   profiles |-> EmptyObj,
   hotkeys |-> [openProfile1 |-> "", openProfile2 |-> "", openProfile3 |-> ""]]

DefaultSettingsLit ==
  [defaultUser |-> "lastUserId",
   enableSync |-> TRUE,
   lastUserId |-> Null,
   lastProfileId |-> Null,
   firefoxContainers |-> FALSE,
   firefoxResumeContainer |-> TRUE,
   firefoxExpireMinsContainer |-> 480,
   iconColor |-> "red",
   navCurrentTab |-> FALSE,
   showReleaseNotes |-> TRUE,
   showAllProfiles |-> FALSE,
   tableSettings |-> [showAllUsers |-> FALSE, showIamRoles |-> TRUE,
                      showIcon |-> TRUE, sortCustom |-> FALSE,
                      sortApp |-> "desc", sortProfile |-> FALSE]]

----------------------------------------------------------------------------
(* Objects and JSON *)

Get(r, k) == IF k \in DOMAIN r THEN r[k] ELSE Undefined

\* { ...a, ...b }
Merge(a, b) ==
  [k \in DOMAIN a \cup DOMAIN b |-> IF k \in DOMAIN b THEN b[k] ELSE a[k]]

Without(r, ks) == [k \in DOMAIN r \ ks |-> r[k]]

\* The properties that hold an id, the only ones that can be undefined here.
IdFields == {"userId", "lastUserId", "lastProfileId", "defaultUser"}

\* JSON.parse(JSON.stringify(obj)): a property whose value is undefined is
\* left out.
JsonObject(r) ==
  [k \in {j \in DOMAIN r : ~(j \in IdFields /\ r[j] = Undefined)} |-> r[k]]

\* JSON.parse(JSON.stringify(array of ids)): undefined becomes null.
JsonIds(ids) ==
  [i \in 1..Len(ids) |-> IF ids[i] = Undefined THEN Null ELSE ids[i]]

\* saveData's value for an object: { ...data, updatedAt: Date.now() }, as it
\* reads back after JSON.stringify and JSON.parse.  Spreading null gives {}.
Stamped(data, t) ==
  Merge(IF data = JNull THEN EmptyObj ELSE JsonObject(data), [updatedAt |-> t])

\* The write saveData(dataKey, data, db) hands to db.set
SaveData(area, key, data, t) == [area |-> area, key |-> key, val |-> Stamped(data, t)]

\* db.set and db.remove on a storage area
SetKey(st, w) ==
  [st EXCEPT ![w.area] =
     [k \in DOMAIN st[w.area] \cup {w.key} |->
        IF k = w.key THEN w.val ELSE st[w.area][k]]]

RemoveKeys(st, area, keys) ==
  [st EXCEPT ![area] = [k \in DOMAIN st[area] \ keys |-> st[area][k]]]

RECURSIVE SetAll(_, _)
SetAll(st, ws) ==
  IF ws = <<>> THEN st ELSE SetAll(SetKey(st, Head(ws)), Tail(ws))

----------------------------------------------------------------------------
(* Loading *)

\* loadSettings/loadUser: copy in every default key the record lacks
BackfillDropStored(rec, def) ==
  [k \in DOMAIN rec \cup DOMAIN def |-> IF k \in DOMAIN def THEN def[k] ELSE rec[k]]

Backfill(rec, def) ==
  [k \in DOMAIN rec \cup DOMAIN def |-> IF k \in DOMAIN rec THEN rec[k] ELSE def[k]]

\* the record a load starts from: the stored one, or the default object itself
StoredOrDefault(st, area, key, def) ==
  IF key \in DOMAIN st[area] THEN st[area][key] ELSE def

\* loadSettings(): the stored record, or this.defaultSettings itself
LoadSettings(st, defS) ==
  Backfill(StoredOrDefault(st, "sync", KeySettings, defS), defS)

\* a missing customization record loads as {}
LoadCustomNoDefault(st, area, u, defC) ==
  IF KeyCustom(u) \in DOMAIN st[area]
    THEN Backfill(st[area][KeyCustom(u)], defC)
    ELSE EmptyObj

\* the custom block of loadUser
LoadCustom(st, area, u, defC) ==
  Backfill(StoredOrDefault(st, area, KeyCustom(u), defC), defC)

\* loadUser(userId, enableSync): {} for a missing record, custom attached
LoadUser(st, area, u, defC) ==
  Merge(IF KeyUser(u) \in DOMAIN st[area] THEN st[area][KeyUser(u)] ELSE EmptyObj,
        [custom |-> LoadCustom(st, area, u, defC)])

\* loadIamLogins(): the mapping in the local area, {} when there is none
LoadIamLogins(st) ==
  IF KeyIam \in DOMAIN st["local"] THEN st["local"][KeyIam] ELSE EmptyObj

\* the ids of the global user list (always in the sync area)
LoadUserIds(st) ==
  IF KeyUsers \in DOMAIN st["sync"] THEN st["sync"][KeyUsers].users ELSE <<>>

----------------------------------------------------------------------------
(* Array helpers *)

Range(s) == {s[i] : i \in 1..Len(s)}

\* [...new Set(ids)]: the first occurrence of each value, in order
Dedupe(ids) ==
  LET keep == {i \in 1..Len(ids) : \A j \in 1..(i - 1) : ids[j] # ids[i]}
      RECURSIVE Pick(_)
      Pick(i) == IF i > Len(ids) THEN <<>>
                 ELSE (IF i \in keep THEN <<ids[i]>> ELSE <<>>) \o Pick(i + 1)
  IN Pick(1)

\* ids.filter((id) => id !== userId)
FilterOut(ids, u) ==
  LET RECURSIVE F(_)
      F(i) == IF i > Len(ids) THEN <<>>
              ELSE (IF ids[i] # u THEN <<ids[i]>> ELSE <<>>) \o F(i + 1)
  IN F(1)

\* a.updatedAt > b.updatedAt, false when either is undefined
Newer(a, b) ==
  /\ "updatedAt" \in DOMAIN a
  /\ "updatedAt" \in DOMAIN b
  /\ a.updatedAt > b.updatedAt

\* users.sort((a, b) => (a.updatedAt > b.updatedAt ? -1 : 1)): the comparator
\* never answers 0, so where neither of two users is newer than the other
\* (equal or undefined updatedAt) the engine's sort decides their order.
SortedByUpdatedAt(users) ==
  LET n == Len(users)
      perms == {f \in [1..n -> 1..n] : \A i, j \in 1..n : f[i] = f[j] => i = j}
  IN {[i \in 1..n |-> users[f[i]]] : f \in
        {g \in perms : \A i \in 1..(n - 1) : ~Newer(users[g[i + 1]], users[g[i]])}}

\* loadUsers(enableSync): one loadUser per id of the list, in list order
LoadUsers(st, area, defC) ==
  LET ids == LoadUserIds(st)
  IN [i \in 1..Len(ids) |-> LoadUser(st, area, ids[i], defC)]

----------------------------------------------------------------------------
(* Inputs of the operations *)

\* the application profile parsed for profile id p (parseAppProfiles)
AppProfile(p) ==
  [applicationName |-> "AWS Account",
   name |-> "account",
   profile |-> [id |-> p, name |-> "Admin"],
   searchMetadata |-> [AccountId |-> "111111111111", AccountName |-> "prod"]]

\* this.apps, as the profile ids parseAppProfiles yields, in order
AppLists == {<<"p1">>, <<"p1", "p2">>}

\* the user of an update: as captured from the SSO portal, no custom block
FreshUser(u) == [userId |-> u, managedActiveDirectoryId |-> "d-1"]

IamRoleOf(p) == [profileId |-> p, roleName |-> "ops", accountId |-> "222222222222"]

CustomWithAccount ==
  Merge(DefaultCustomLit,
        [accounts |-> ("111111111111" :> [color |-> "ff0000", label |-> "prod"])])

\* a customization written before most keys existed
CustomPartial == [displayName |-> "me", colorDefault |-> "00ff00"]

CustomInputs == {CustomWithAccount, CustomPartial}

\* what the caller changes before saveSettings: the last-used user, with
\* the sync toggle switched off or with a default-user policy
LastUsed == "u1"

SettingsChanges ==
  {[enableSync |-> FALSE, lastUserId |-> LastUsed]}
    \cup {[lastUserId |-> LastUsed, defaultUser |-> d] :
             d \in UserIds \cup {"lastUserId"}}

\* the enableSync argument callers pass: the stored setting, as update() does
CallerEnableSync == LoadSettings(store, defaultSettings).enableSync

\* a settings record exported before most keys existed
SettingsPartial == [enableSync |-> FALSE, iconColor |-> "blue"]

\* imported configurations: any subset of the two top-level keys
ImportConfigs ==
  {EmptyObj,
   [user |-> CustomPartial],
   [extension |-> SettingsPartial],
   [user |-> CustomPartial, extension |-> SettingsPartial],
   [user |-> CustomWithAccount, extension |-> DefaultSettingsLit],
   [user |-> CustomPartial, extension |-> JNull]}

NoOp == [name |-> "none"]
NoRet == [kind |-> "none"]

\* the browser where the storage operations run: no tab or container matters
NoBrowser == [closed |-> FALSE]

----------------------------------------------------------------------------
(* The state after construction: both storage areas empty *)

Init ==
  /\ store = [a \in Areas |-> EmptyObj]
  /\ pending = {}
  /\ now = 0
  /\ opsLeft = MaxOps
  /\ defaultSettings = DefaultSettingsLit
  /\ defaultCustom = DefaultCustomLit
  /\ pc = "idle"
  /\ op = NoOp
  /\ ret = NoRet
  /\ last = NoOp
  /\ browser = NoBrowser

\* A mutating operation is started once the writes of the previous one have
\* landed; Date.now() has advanced since.
CanMutate == pc = "idle" /\ pending = {} /\ opsLeft > 0

\* A write that was not awaited lands.
ApplyPending ==
  \E w \in pending :
    /\ store' = SetKey(store, w)
    /\ pending' = pending \ {w}
    /\ UNCHANGED <<now, opsLeft, defaultSettings, defaultCustom, browser, pc, op, ret, last>>

----------------------------------------------------------------------------
(* update(user), with saveAppProfiles and saveUser *)

UpdateStart ==
  \E u \in UserIds, apps \in AppLists :
    /\ CanMutate
    /\ now' = now + 1
    /\ opsLeft' = opsLeft - 1
    /\ op' = [name |-> "update", user |-> FreshUser(u), apps |-> apps]
    /\ pc' = "update_then"
    /\ ret' = NoRet
    /\ last' = NoOp
    /\ UNCHANGED <<store, pending, defaultSettings, defaultCustom, browser>>

\* the writes of saveAppProfiles(user, enableSync), none of them awaited
SaveAppProfilesWrites(user, apps, enableSync, t) ==
  LET data == Merge(user, [appProfileIds |-> apps])
  IN {SaveData("local", KeyProfile(apps[i]), AppProfile(apps[i]), t) : i \in 1..Len(apps)}
       \cup (IF "custom" \in DOMAIN data
               THEN {SaveData(Area(enableSync), KeyCustom(data.userId), data.custom, t)}
               ELSE {})
       \cup {SaveData(Area(enableSync), KeyUser(data.userId),
                      Merge(data, [custom |-> EmptyObj]), t)}

\* the user ids update() writes back: [user.userId, ...data.users ids], deduplicated
UpdateUserIds(user, users) ==
  Dedupe(<<user.userId>> \o [i \in 1..Len(users) |-> Get(users[i], "userId")])

\* loadData() has resolved: the callback of update runs to its end
UpdateThen ==
  /\ pc = "update_then"
  /\ LET settings == LoadSettings(store, defaultSettings)
     IN \E users \in SortedByUpdatedAt(LoadUsers(store, Area(settings.enableSync), defaultCustom)) :
          pending' = pending
            \cup {SaveData("sync", KeyUsers,
                           [users |-> JsonIds(UpdateUserIds(op.user, users))], now)}
            \cup SaveAppProfilesWrites(op.user, op.apps, settings.enableSync, now)
  /\ pc' = "idle"
  /\ UNCHANGED <<store, now, opsLeft, defaultSettings, defaultCustom, browser, op, ret, last>>

----------------------------------------------------------------------------
(* saveSettings(settings) *)

SaveSettingsStart ==
  \E chg \in SettingsChanges :
    /\ CanMutate
    /\ now' = now + 1
    /\ opsLeft' = opsLeft - 1
    /\ op' = [name |-> "saveSettings",
              settings |-> Merge(LoadSettings(store, defaultSettings), chg)]
    /\ pc' = "ss_set"
    /\ ret' = NoRet
    /\ last' = NoOp
    /\ UNCHANGED <<store, pending, defaultSettings, defaultCustom, browser>>

SaveSettingsDone ==
  /\ pc = "ss_set"
  /\ store' = SetKey(store, SaveData("sync", KeySettings, op.settings, now))
  /\ pc' = "idle"
  /\ UNCHANGED <<pending, now, opsLeft, defaultSettings, defaultCustom, browser, op, ret, last>>

----------------------------------------------------------------------------
(* removeUser(userId, enableSync): every storage call is awaited, one step  *)
(* per call                                                                 *)

RemoveUserStart ==
  \E u \in UserIds :
    /\ CanMutate
    /\ now' = now + 1
    /\ opsLeft' = opsLeft - 1
    /\ op' = [name |-> "removeUser", userId |-> u, area |-> Area(CallerEnableSync),
              before |-> store, beforeSettings |-> LoadSettings(store, defaultSettings)]
    /\ pc' = "rm_loadUser"
    /\ ret' = NoRet
    /\ last' = NoOp
    /\ UNCHANGED <<store, pending, defaultSettings, defaultCustom, browser>>

\* const user = await this.loadUser(userId, enableSync)
RemoveUserLoadUser ==
  /\ pc = "rm_loadUser"
  /\ op' = Merge(op, [user |-> LoadUser(store, op.area, op.userId, defaultCustom)])
  /\ pc' = "rm_removeKeys"
  /\ UNCHANGED <<store, pending, now, opsLeft, defaultSettings, defaultCustom, browser, ret, last>>

\* await storage.remove([user key, custom key])
RemoveUserKeysOnlyUser(o) == {KeyUser(o.userId)}

RemoveUserKeys(o) == {KeyUser(o.userId), KeyCustom(o.userId)}

RemoveUserRemoveKeys ==
  /\ pc = "rm_removeKeys"
  /\ store' = RemoveKeys(store, op.area, RemoveUserKeys(op))
  /\ pc' = "rm_profiles"
  /\ UNCHANGED <<pending, now, opsLeft, defaultSettings, defaultCustom, browser, op, ret, last>>

\* user.appProfileIds, [] standing for a missing property where it is only
\* iterated; HasProfileIds tells the two apart
HasProfileIds(user) == "appProfileIds" \in DOMAIN user
ProfileIdsOf(user) == IF HasProfileIds(user) THEN user.appProfileIds ELSE <<>>

\* if (user.appProfileIds && length > 0) await storage.local.remove(ids)
RemoveUserProfiles ==
  /\ pc = "rm_profiles"
  /\ store' = RemoveKeys(store, "local",
                         {KeyProfile(p) : p \in Range(ProfileIdsOf(op.user))})
  /\ pc' = "rm_loadIam"
  /\ UNCHANGED <<pending, now, opsLeft, defaultSettings, defaultCustom, browser, op, ret, last>>

\* const iamLogins = await this.loadIamLogins()
RemoveUserLoadIam ==
  /\ pc = "rm_loadIam"
  /\ op' = Merge(op, [iamLogins |-> LoadIamLogins(store)])
  /\ pc' = "rm_saveIam"
  /\ UNCHANGED <<store, pending, now, opsLeft, defaultSettings, defaultCustom, browser, ret, last>>

\* the mapping removeUser writes back: the entries of the user's profile ids deleted
RemoveUserIamKeepAll(o) == o.iamLogins

RemoveUserIam(o) == Without(o.iamLogins, Range(ProfileIdsOf(o.user)))

\* if (user.appProfileIds) { delete ...; await this.saveData(iam-logins) }
RemoveUserSaveIam ==
  /\ pc = "rm_saveIam"
  /\ store' = IF HasProfileIds(op.user)
                THEN SetKey(store, SaveData("local", KeyIam, RemoveUserIam(op), now))
                ELSE store
  /\ pc' = "rm_loadList"
  /\ UNCHANGED <<pending, now, opsLeft, defaultSettings, defaultCustom, browser, op, ret, last>>

\* const usersData = await storage.sync.get(users key); filter
RemoveUserLoadList ==
  /\ pc = "rm_loadList"
  /\ op' = Merge(op, [updatedUsers |-> FilterOut(LoadUserIds(store), op.userId)])
  /\ pc' = "rm_saveList"
  /\ UNCHANGED <<store, pending, now, opsLeft, defaultSettings, defaultCustom, browser, ret, last>>

\* await this.saveData(users key, { users: updatedUsers }, sync)
RemoveUserSaveList ==
  /\ pc = "rm_saveList"
  /\ store' = SetKey(store, SaveData("sync", KeyUsers, [users |-> op.updatedUsers], now))
  /\ pc' = "rm_loadSettings"
  /\ UNCHANGED <<pending, now, opsLeft, defaultSettings, defaultCustom, browser, op, ret, last>>

\* updatedUsers[0] || ''
FirstOrEmpty(ids) ==
  IF Len(ids) = 0 \/ ids[1] \in {Undefined, Null, ""} THEN "" ELSE ids[1]

\* the settings removeUser saves when the removed user was referenced
RemoveUserSettingsKeepLast(settings, o) ==
  Merge(settings,
        [defaultUser |-> IF settings.defaultUser = o.userId
                           THEN "lastUserId" ELSE settings.defaultUser])

RemoveUserSettings(settings, o) ==
  Merge(settings,
        [lastUserId |-> FirstOrEmpty(o.updatedUsers),
         defaultUser |-> IF settings.defaultUser = o.userId
                           THEN "lastUserId" ELSE settings.defaultUser])

\* const settings = await this.loadSettings(); the test; await saveSettings.
\* With no stored record `settings` is this.defaultSettings itself, which
\* the two assignments then change.
RemoveUserSettingsStep ==
  /\ pc = "rm_loadSettings"
  /\ LET settings == LoadSettings(store, defaultSettings)
         hit == settings.defaultUser = op.userId \/ settings.lastUserId = op.userId
     IN /\ store' = IF hit
                      THEN SetKey(store, SaveData("sync", KeySettings,
                                                  RemoveUserSettings(settings, op), now))
                      ELSE store
        /\ defaultSettings' = IF hit /\ ~Has("sync", KeySettings)
                                THEN RemoveUserSettings(settings, op)
                                ELSE defaultSettings
  /\ pc' = "idle"
  /\ last' = op
  /\ UNCHANGED <<pending, now, opsLeft, defaultCustom, browser, op, ret>>

----------------------------------------------------------------------------
(* loadSettings() and loadUser(userId, enableSync) called on their own;     *)
(* a read may follow another operation at once                              *)

LoadSettingsStart ==
  /\ pc = "idle"
  /\ op' = [name |-> "loadSettings"]
  /\ pc' = "ls_get"
  /\ ret' = NoRet
  /\ UNCHANGED <<store, pending, now, opsLeft, defaultSettings, defaultCustom, browser, last>>

LoadSettingsDone ==
  /\ pc = "ls_get"
  /\ ret' = [kind |-> "settings",
             hadRecord |-> Has("sync", KeySettings),
             stored |-> IF Has("sync", KeySettings)
                          THEN store["sync"][KeySettings] ELSE EmptyObj,
             val |-> LoadSettings(store, defaultSettings)]
  /\ pc' = "idle"
  /\ UNCHANGED <<store, pending, now, opsLeft, defaultSettings, defaultCustom, browser, op, last>>

LoadUserStart ==
  \E u \in UserIds :
    /\ pc = "idle"
    /\ op' = [name |-> "loadUser", userId |-> u, area |-> Area(CallerEnableSync)]
    /\ pc' = "lu_getUser"
    /\ ret' = NoRet
    /\ UNCHANGED <<store, pending, now, opsLeft, defaultSettings, defaultCustom, browser, last>>

\* const userData = await storage.get(userKey)
LoadUserGetUser ==
  /\ pc = "lu_getUser"
  /\ op' = Merge(op, [user |-> IF Has(op.area, KeyUser(op.userId))
                                 THEN store[op.area][KeyUser(op.userId)]
                                 ELSE EmptyObj])
  /\ pc' = "lu_getCustom"
  /\ UNCHANGED <<store, pending, now, opsLeft, defaultSettings, defaultCustom, browser, ret, last>>

\* const customData = await storage.get(customKey); backfill; attach
LoadUserGetCustom ==
  /\ pc = "lu_getCustom"
  /\ ret' = [kind |-> "user", userId |-> op.userId, area |-> op.area,
             hadCustom |-> Has(op.area, KeyCustom(op.userId)),
             stored |-> IF Has(op.area, KeyCustom(op.userId))
                          THEN store[op.area][KeyCustom(op.userId)] ELSE EmptyObj,
             val |-> Merge(op.user,
                           [custom |-> LoadCustom(store, op.area, op.userId, defaultCustom)])]
  /\ pc' = "idle"
  /\ UNCHANGED <<store, pending, now, opsLeft, defaultSettings, defaultCustom, browser, op, last>>

----------------------------------------------------------------------------
(* saveUser(user, enableSync) called on its own, as when the caller saves   *)
(* an edited customization                                                  *)

\* saveCustom(custom, userId, enableSync): saveData is called, its promise dropped
SaveCustomWrite(custom, userId, enableSync, t) ==
  SaveData(Area(enableSync), KeyCustom(userId), custom, t)

\* the record saveUser persists: { ...user, custom: {} }
SaveUserRecordKeepCustom(user) == user

SaveUserRecord(user) == Merge(user, [custom |-> EmptyObj])

\* the synchronous part of saveUser: saveCustom's write is issued and left
\* in flight, the user record's write is issued and its promise returned
SaveUserStart ==
  \E u \in UserIds, c \in CustomInputs :
    /\ CanMutate
    /\ now' = now + 1
    /\ opsLeft' = opsLeft - 1
    /\ LET enableSync == CallerEnableSync
           user == Merge(LoadUser(store, Area(enableSync), u, defaultCustom),
                         [userId |-> u, managedActiveDirectoryId |-> "d-1", custom |-> c])
       IN /\ op' = [name |-> "saveUser", user |-> user, area |-> Area(enableSync),
                    enableSync |-> enableSync]
          /\ pending' = pending \cup {SaveCustomWrite(user.custom, user.userId, enableSync, now')}
    /\ pc' = "su_set"
    /\ ret' = NoRet
    /\ last' = NoOp
    /\ UNCHANGED <<store, defaultSettings, defaultCustom, browser>>

\* the returned promise resolves: the user record is stored
SaveUserDone ==
  /\ pc = "su_set"
  /\ store' = SetKey(store, SaveData(op.area, KeyUser(op.user.userId),
                                     SaveUserRecord(op.user), now))
  /\ pc' = "idle"
  /\ last' = op
  /\ UNCHANGED <<pending, now, opsLeft, defaultSettings, defaultCustom, browser, op, ret>>

----------------------------------------------------------------------------
(* queueIamLogin(role) *)

QueueIamLoginStart ==
  \E p \in ProfileIds :
    /\ CanMutate
    /\ now' = now + 1
    /\ opsLeft' = opsLeft - 1
    /\ op' = [name |-> "queueIamLogin", role |-> IamRoleOf(p)]
    /\ pc' = "qi_then"
    /\ ret' = NoRet
    /\ last' = NoOp
    /\ UNCHANGED <<store, pending, defaultSettings, defaultCustom, browser>>

\* loadIamLogins() has resolved: the callback sets the entry and calls
\* saveData without returning its promise
QueueIamLoginThen ==
  /\ pc = "qi_then"
  /\ pending' = pending
       \cup {SaveData("local", KeyIam,
                      Merge(LoadIamLogins(store), (op.role.profileId :> op.role)), now)}
  /\ pc' = "idle"
  /\ last' = op
  /\ UNCHANGED <<store, now, opsLeft, defaultSettings, defaultCustom, browser, op, ret>>

----------------------------------------------------------------------------
(* importUserConfig(userId, cfg): synchronous, returns a boolean *)

\* requiredKeys.forEach: some key of ['user', 'extension'] is not in cfg
MissingKeys(cfg) == ~({"user", "extension"} \subseteq DOMAIN cfg)

\* cfg.extension.enableSync throws a TypeError when cfg.extension is null
ExtensionThrows(cfg) == cfg.extension = JNull

ImportEnableSync(cfg) ==
  IF "enableSync" \in DOMAIN cfg.extension THEN cfg.extension.enableSync ELSE FALSE

\* the writes importUserConfig has issued when it returns: saveSettings is
\* called before cfg.extension.enableSync is read for saveCustom's argument
ImportWrites(userId, cfg, t) ==
  IF MissingKeys(cfg) THEN {}
  ELSE {SaveData("sync", KeySettings, cfg.extension, t)}
         \cup (IF ExtensionThrows(cfg) THEN {}
               ELSE {SaveCustomWrite(cfg.user, userId, ImportEnableSync(cfg), t)})

\* what it returns: false from the key check or from the catch block
ImportResult(cfg) == ~MissingKeys(cfg) /\ ~ExtensionThrows(cfg)

ImportUserConfig ==
  \E u \in UserIds, cfg \in ImportConfigs :
    /\ CanMutate
    /\ now' = now + 1
    /\ opsLeft' = opsLeft - 1
    /\ pending' = pending \cup ImportWrites(u, cfg, now')
    /\ op' = [name |-> "importUserConfig", userId |-> u, cfg |-> cfg,
              before |-> store]
    /\ last' = op'
    /\ ret' = [kind |-> "import", val |-> ImportResult(cfg)]
    /\ pc' = "idle"
    /\ UNCHANGED <<store, defaultSettings, defaultCustom, browser>>

----------------------------------------------------------------------------

\* The user store: users are captured, settings changed, IAM logins
\* remembered and users removed.
Next ==
  \/ ApplyPending
  \/ UpdateStart \/ UpdateThen
  \/ SaveSettingsStart \/ SaveSettingsDone
  \/ QueueIamLoginStart \/ QueueIamLoginThen
  \/ RemoveUserStart \/ RemoveUserLoadUser \/ RemoveUserRemoveKeys
  \/ RemoveUserProfiles \/ RemoveUserLoadIam \/ RemoveUserSaveIam
  \/ RemoveUserLoadList \/ RemoveUserSaveList \/ RemoveUserSettingsStep

Spec == Init /\ [][Next]_vars

\* Saving, importing and loading settings and customization.
NextLoad ==
  \/ ApplyPending
  \/ SaveUserStart \/ SaveUserDone
  \/ ImportUserConfig
  \/ LoadSettingsStart \/ LoadSettingsDone
  \/ LoadUserStart \/ LoadUserGetUser \/ LoadUserGetCustom

InitLoad ==
  /\ store = [a \in Areas |-> EmptyObj]
  /\ pending = {}
  /\ now = 0
  /\ opsLeft = MaxLoadOps
  /\ defaultSettings = DefaultSettingsLit
  /\ defaultCustom = DefaultCustomLit
  /\ pc = "idle"
  /\ op = NoOp
  /\ ret = NoRet
  /\ last = NoOp
  /\ browser = NoBrowser

SpecLoad == InitLoad /\ [][NextLoad]_vars

----------------------------------------------------------------------------
(* removeUser: what it leaves behind (C2, C3) *)

\* removeUser(last.userId, enableSync) has just completed
RemoveUserCompleted == pc = "idle" /\ last.name = "removeUser"

\* the profile ids the removed user owned when removeUser was called: the
\* appProfileIds of its record in the storage area enableSync selects
OwnedBefore ==
  Range(ProfileIdsOf(LoadUser(last.before, last.area, last.userId, DefaultCustomLit)))

\* C2: after removeUser(userId) has completed for a user that owned the
\* profile ids P, the IAM-login mapping has no entry keyed by an id of P, no
\* application-profile record of an id of P is stored, the user record and
\* the customization record of userId are gone from the selected area, and
\* userId is not in the global user-id list.
C2_RemoveUserLeavesNothing ==
  RemoveUserCompleted =>
    /\ \A p \in OwnedBefore : p \notin DOMAIN LoadIamLogins(store)
    /\ \A p \in OwnedBefore : ~Has("local", KeyProfile(p))
    /\ ~Has(last.area, KeyUser(last.userId))
    /\ ~Has(last.area, KeyCustom(last.userId))
    /\ last.userId \notin Range(LoadUserIds(store))

\* a removed user that was listed and owned two stored profiles, one of
\* them with a remembered IAM login
C2_Witness ==
  /\ RemoveUserCompleted
  /\ Cardinality(OwnedBefore) = 2
  /\ \A p \in OwnedBefore : KeyProfile(p) \in DOMAIN last.before["local"]
  /\ \E p \in OwnedBefore : p \in DOMAIN LoadIamLogins(last.before)
  /\ last.userId \in Range(LoadUserIds(last.before))

\* the ids of the global list that name a user
RemainingUsers == Range(LoadUserIds(store)) \cap UserIds

\* C3: after removeUser(userId) has completed, if lastUserId or defaultUser
\* equalled userId before the call then lastUserId is the id of a remaining
\* user of the global list, or empty when no user remains, and defaultUser
\* is the 'lastUserId' policy if it pointed at the removed user, so that
\* neither setting references the removed user; if neither referenced it,
\* the stored settings are unchanged.
C3_SettingsAfterRemoveUser ==
  RemoveUserCompleted =>
    LET before == last.beforeSettings
        after == LoadSettings(store, defaultSettings)
    IN IF before.lastUserId = last.userId \/ before.defaultUser = last.userId
         THEN /\ \/ after.lastUserId \in RemainingUsers
                 \/ after.lastUserId = "" /\ RemainingUsers = {}
              /\ before.defaultUser = last.userId => after.defaultUser = "lastUserId"
              /\ after.lastUserId # last.userId
              /\ after.defaultUser # last.userId
         ELSE /\ Has("sync", KeySettings) = (KeySettings \in DOMAIN last.before["sync"])
              /\ Has("sync", KeySettings) =>
                   store["sync"][KeySettings] = last.before["sync"][KeySettings]

----------------------------------------------------------------------------
(* Loading settings and customization (C4, C5, C6) *)

\* C5: loadSettings on a store with no settings record, and loadUser on a
\* store with no customization record of that user, return settings and
\* user.custom equal to the hard-coded default record: the same keys, the
\* same value for every key.
C5_EmptyStoreYieldsDefaults ==
  /\ ret.kind = "settings" /\ ~ret.hadRecord => ret.val = DefaultSettingsLit
  /\ ret.kind = "user" /\ ~ret.hadCustom => ret.val.custom = DefaultCustomLit

\* loadUser has returned the defaults for a user whose record is stored and
\* whose customization is not
C5_Witness ==
  /\ ret.kind = "user"
  /\ ~ret.hadCustom
  /\ "userId" \in DOMAIN ret.val
  /\ ret.val.custom = DefaultCustomLit

\* the loaded record `val` of the stored record `stored`, under defaults `def`
BackfilledFrom(val, stored, def) ==
  /\ \A k \in DOMAIN stored : k \in DOMAIN val /\ val[k] = stored[k]
  /\ \A k \in DOMAIN def \ DOMAIN stored : k \in DOMAIN val /\ val[k] = def[k]
  /\ DOMAIN def \subseteq DOMAIN val

\* C6: for a stored settings or customization record that lacks default
\* keys, the loaded record has the stored value for every key the stored
\* record has, the default value for every default key it lacks, and every
\* default key.
C6_Backfill ==
  /\ ret.kind = "settings" /\ ret.hadRecord =>
       BackfilledFrom(ret.val, ret.stored, DefaultSettingsLit)
  /\ ret.kind = "user" /\ ret.hadCustom =>
       BackfilledFrom(ret.val.custom, ret.stored, DefaultCustomLit)

\* a stored settings record that lacks default keys and differs from the
\* defaults in a key it has has been loaded
C6_Witness ==
  /\ ret.kind = "settings"
  /\ ret.hadRecord
  /\ ~(DOMAIN DefaultSettingsLit \subseteq DOMAIN ret.stored)
  /\ \E k \in DOMAIN ret.stored \cap DOMAIN DefaultSettingsLit :
       ret.stored[k] # DefaultSettingsLit[k]

\* loadUser(userId, area) has returned after saveUser(user, area) completed
\* for the same user and area, nothing else called in between
LoadedAfterSave ==
  /\ pc = "idle"
  /\ last.name = "saveUser"
  /\ ret.kind = "user"
  /\ ret.userId = last.user.userId
  /\ ret.area = last.area

\* C4: once saveUser(user, area) has completed, loadUser(user.userId, area)
\* returns a record equal to the input in every field but custom and
\* updatedAt; custom is the customization passed to saveUser, as read back
\* from its own record (with the write stamp saveData adds and the default
\* keys loadUser copies in), and an updatedAt stamp is present.
C4_SaveLoadRoundTrip ==
  LoadedAfterSave =>
    LET sent == last.user
        got == ret.val
        plain(r) == DOMAIN r \ {"custom", "updatedAt"}
    IN /\ plain(got) = plain(sent)
       /\ \A k \in plain(sent) : got[k] = sent[k]
       /\ "updatedAt" \in DOMAIN got
       /\ "custom" \in DOMAIN got
       /\ \A k \in DOMAIN sent.custom :
            k \in DOMAIN got.custom /\ got.custom[k] = sent.custom[k]

----------------------------------------------------------------------------
(* importUserConfig (C10) *)

ImportReturned ==
  pc = "idle" /\ last.name = "importUserConfig" /\ ret.kind = "import"

\* the record stored under `key` carries every key of `data` with its value
StoredCarries(area, key, data) ==
  /\ Has(area, key)
  /\ \A k \in DOMAIN data :
       k \in DOMAIN store[area][key] /\ store[area][key][k] = data[k]

\* C10: importUserConfig(userId, cfg) returns false and issues no write when
\* cfg lacks 'user' or 'extension'; with both keys it returns true and, its
\* writes landed, the stored settings are cfg.extension and the stored
\* customization of userId is cfg.user.
C10_ImportUserConfig ==
  ImportReturned =>
    IF MissingKeys(last.cfg)
      THEN ~ret.val /\ pending = {} /\ store = last.before
      ELSE /\ ret.val
           /\ pending = {} =>
                /\ StoredCarries("sync", KeySettings, last.cfg.extension)
                /\ StoredCarries(Area(ImportEnableSync(last.cfg)),
                                 KeyCustom(last.userId), last.cfg.user)

----------------------------------------------------------------------------
(* customizeProfiles(user, appProfiles) (C1) *)

\* the block a profile without an override of its own gets
CustomDefaults(user) ==
  [favorite |-> FALSE, hide |-> FALSE, label |-> Null, iamRoles |-> <<>>,
   color |-> user.custom.colorDefault]

\* the body of appProfiles.forEach: the profile with its custom block
\* attached and, for an AWS account with an entry in user.custom.accounts,
\* the account's color inherited or forced
CustomizeProfileNoOverride(user, ap) ==
  LET own == IF ap.profile.id \in DOMAIN user.custom.profiles
               THEN user.custom.profiles[ap.profile.id]
               ELSE CustomDefaults(user)
      account == ap.searchMetadata.AccountId
      custom ==
        IF /\ ap.applicationName = "AWS Account"
           /\ account \in DOMAIN user.custom.accounts
           /\ Get(own, "color") = user.custom.colorDefault
          THEN Merge(own, [color |-> Get(user.custom.accounts[account], "color")])
          ELSE own
  IN [ap EXCEPT !.profile = Merge(ap.profile, [custom |-> custom])]

CustomizeProfile(user, ap) ==
  LET own == IF ap.profile.id \in DOMAIN user.custom.profiles
               THEN user.custom.profiles[ap.profile.id]
               ELSE CustomDefaults(user)
      account == ap.searchMetadata.AccountId
      custom ==
        IF /\ ap.applicationName = "AWS Account"
           /\ account \in DOMAIN user.custom.accounts
           /\ \/ user.custom.accountsOverride
              \/ Get(own, "color") = user.custom.colorDefault
          THEN Merge(own, [color |-> Get(user.custom.accounts[account], "color")])
          ELSE own
  IN [ap EXCEPT !.profile = Merge(ap.profile, [custom |-> custom])]

CustomizeProfiles(user, appProfiles) ==
  [i \in 1..Len(appProfiles) |-> CustomizeProfile(user, appProfiles[i])]

\* Inputs: customizations and application profiles
ColorDefaults == {"222f3e", "00ff00"}

AccountMaps ==
  {EmptyObj,
   ("111111111111" :> [color |-> "ff0000", label |-> "prod"]),
   ("111111111111" :> [color |-> "222f3e", label |-> "prod"]),
   ("111111111111" :> [label |-> "prod"])}

ProfileOverride(color) ==
  [favorite |-> TRUE, hide |-> FALSE, label |-> "mine", iamRoles |-> <<>>, color |-> color]

ProfileMaps ==
  {EmptyObj,
   ("p1" :> ProfileOverride("222f3e")),
   ("p1" :> ProfileOverride("00ff00")),
   ("p1" :> ProfileOverride("ff0000")),
   ("p1" :> [favorite |-> TRUE, hide |-> FALSE, label |-> "mine", iamRoles |-> <<>>])}

CustomizeUsers ==
  {[custom |-> Merge(DefaultCustomLit,
                     [accountsOverride |-> o, colorDefault |-> d,
                      accounts |-> a, profiles |-> p])] :
     o \in BOOLEAN, d \in ColorDefaults, a \in AccountMaps, p \in ProfileMaps}

RawProfiles ==
  {[applicationName |-> app, name |-> "account",
    profile |-> [id |-> id, name |-> "Admin"],
    searchMetadata |-> [AccountId |-> acct, AccountName |-> "prod"]] :
     app \in {"AWS Account", "Slack"}, id \in ProfileIds,
     acct \in {"111111111111", "333333333333"}}

InitCustomize ==
  /\ store = [a \in Areas |-> EmptyObj]
  /\ pending = {}
  /\ now = 0
  /\ opsLeft = 0
  /\ defaultSettings = DefaultSettingsLit
  /\ defaultCustom = DefaultCustomLit
  /\ pc = "call"
  /\ op \in {[name |-> "customizeProfiles", user |-> u, appProfiles |-> <<a, b>>] :
               u \in CustomizeUsers,
               a \in RawProfiles,
               b \in {r \in RawProfiles : r.profile.id = "p2" /\ r.applicationName = "AWS Account"}}
  /\ ret = NoRet
  /\ last = NoOp
  /\ browser = NoBrowser

CustomizeCall ==
  /\ pc = "call"
  /\ op.name = "customizeProfiles"
  /\ ret' = [kind |-> "profiles", val |-> CustomizeProfiles(op.user, op.appProfiles)]
  /\ pc' = "idle"
  /\ UNCHANGED <<store, pending, now, opsLeft, defaultSettings, defaultCustom, browser, op, last>>

NextCustomize == CustomizeCall

SpecCustomize == InitCustomize /\ [][NextCustomize]_vars

\* profile i of the call is an AWS account whose account id has an entry in
\* user.custom.accounts
InheritsAccount(i) ==
  /\ op.appProfiles[i].applicationName = "AWS Account"
  /\ op.appProfiles[i].searchMetadata.AccountId \in DOMAIN op.user.custom.accounts

\* its own color: the per-profile override's, or colorDefault without one
OwnColor(i) ==
  IF op.appProfiles[i].profile.id \in DOMAIN op.user.custom.profiles
    THEN Get(op.user.custom.profiles[op.appProfiles[i].profile.id], "color")
    ELSE op.user.custom.colorDefault

AccountColor(i) ==
  Get(op.user.custom.accounts[op.appProfiles[i].searchMetadata.AccountId], "color")

ResolvedColor(i) == Get(ret.val[i].profile.custom, "color")

\* C1: for an AWS-account profile whose account id has an entry in
\* user.custom.accounts, the resolved color is the account color when
\* accountsOverride is true; when it is false, the resolved color is the
\* account color if the profile's own color equals colorDefault, and the
\* profile's own color otherwise.
C1_AccountColor ==
  ret.kind = "profiles" =>
    \A i \in 1..Len(op.appProfiles) :
      InheritsAccount(i) =>
        IF op.user.custom.accountsOverride \/ OwnColor(i) = op.user.custom.colorDefault
          THEN ResolvedColor(i) = AccountColor(i)
          ELSE ResolvedColor(i) = OwnColor(i)

\* accountsOverride forces the account color over a profile's own explicit color
C1_Witness ==
  /\ ret.kind = "profiles"
  /\ \E i \in 1..Len(op.appProfiles) :
       /\ InheritsAccount(i)
       /\ op.user.custom.accountsOverride
       /\ OwnColor(i) = "00ff00"
       /\ op.user.custom.colorDefault = "222f3e"
       /\ AccountColor(i) = "ff0000"
       /\ ResolvedColor(i) = "ff0000"

----------------------------------------------------------------------------
(* Strings: JavaScript's string operations, character by character *)

Chars(s) == {SubSeq(s, i, i) : i \in 1..Len(s)}

StartsWith(s, prefix) ==
  Len(s) >= Len(prefix) /\ SubSeq(s, 1, Len(prefix)) = prefix

\* s.includes(sub)
Includes(s, sub) ==
  \E i \in 1..(Len(s) - Len(sub) + 1) : SubSeq(s, i, i + Len(sub) - 1) = sub

\* s.replaceAll(pat, rep) for a string pattern, and a replacement without "$"
RECURSIVE ReplaceAll(_, _, _)
ReplaceAll(s, pat, rep) ==
  IF Len(s) < Len(pat) THEN s
  ELSE IF SubSeq(s, 1, Len(pat)) = pat
    THEN rep \o ReplaceAll(SubSeq(s, Len(pat) + 1, Len(s)), pat, rep)
    ELSE SubSeq(s, 1, 1) \o ReplaceAll(SubSeq(s, 2, Len(s)), pat, rep)

\* if (x), x || y: null, undefined and the empty string are falsy
Truthy(x) == x \notin {Null, Undefined, ""}

OrElse(x, y) == IF Truthy(x) THEN x ELSE y

Letters == Chars("ABCDEFGHIJKLMNOPQRSTUVWXYZabcdefghijklmnopqrstuvwxyz")
Digits == Chars("0123456789")

\* the characters encodeURIComponent leaves as they are
UnreservedChars == Letters \cup Digits \cup Chars("-_.!~*'()")

\* the percent-encoding of the other printable ASCII characters
PercentCodes ==
  (" " :> "%20") @@ ("#" :> "%23") @@ ("$" :> "%24") @@ ("%" :> "%25") @@
  ("&" :> "%26") @@ ("+" :> "%2B") @@ ("," :> "%2C") @@ ("/" :> "%2F") @@
  (":" :> "%3A") @@ (";" :> "%3B") @@ ("<" :> "%3C") @@ ("=" :> "%3D") @@
  (">" :> "%3E") @@ ("?" :> "%3F") @@ ("@" :> "%40") @@ ("[" :> "%5B") @@
  ("]" :> "%5D") @@ ("^" :> "%5E") @@ ("{" :> "%7B") @@ ("|" :> "%7C") @@
  ("}" :> "%7D")

RECURSIVE EncodeURIComponent(_)
EncodeURIComponent(s) ==
  IF s = "" THEN ""
  ELSE (IF SubSeq(s, 1, 1) \in UnreservedChars
          THEN SubSeq(s, 1, 1)
          ELSE PercentCodes[SubSeq(s, 1, 1)])
       \o EncodeURIComponent(SubSeq(s, 2, Len(s)))

\* '%' and c.charCodeAt(0).toString(16), for the characters of /[!'()*]/
ParenCodes ==
  ("!" :> "%21") @@ ("'" :> "%27") @@ ("(" :> "%28") @@ (")" :> "%29") @@
  ("*" :> "%2a")

RECURSIVE ReplaceParens(_)
ReplaceParens(s) ==
  IF s = "" THEN ""
  ELSE (IF SubSeq(s, 1, 1) \in DOMAIN ParenCodes
          THEN ParenCodes[SubSeq(s, 1, 1)]
          ELSE SubSeq(s, 1, 1))
       \o ReplaceParens(SubSeq(s, 2, Len(s)))

encodeUriPlusParens(str) == ReplaceParens(EncodeURIComponent(str))

\* \w
WordChars == Letters \cup Digits \cup {"_"}

\* (?<region>\w{2}-\w+-\d{1,2}) matches the whole of s
MatchesRegion(s) ==
  /\ Len(s) >= 6
  /\ Chars(SubSeq(s, 1, 2)) \subseteq WordChars
  /\ SubSeq(s, 3, 3) = "-"
  /\ \E k \in 4..(Len(s) - 2) :
       /\ Chars(SubSeq(s, 4, k)) \subseteq WordChars
       /\ SubSeq(s, k + 1, k + 1) = "-"
       /\ Len(s) - (k + 1) \in {1, 2}
       /\ Chars(SubSeq(s, k + 2, Len(s))) \subseteq Digits

\* url.match(this.consoleUrlRegex); the path (.*)? takes any characters
\* but line terminators, which no URL here has
MatchesConsoleUrl(url) ==
  /\ StartsWith(url, "https://")
  /\ \E j \in 9..(Len(url) - 5) :
       /\ SubSeq(url, j + 1, j + 5) = ".com/"
       /\ LET host == SubSeq(url, 9, j)
              suffix == ".console.aws.amazon"
              sub == SubSeq(host, 1, Len(host) - Len(suffix))
          IN \/ host = "console.amazonaws-us-gov"
             \/ /\ Len(host) > Len(suffix)
                /\ SubSeq(host, Len(host) - Len(suffix) + 1, Len(host)) = suffix
                /\ \/ MatchesRegion(sub)
                   \/ sub \in {"support", "s3", "health"}

----------------------------------------------------------------------------
(* buildLabel, sessionLabelSso *)

buildLabel(s, user, profile, role, account, accountName, accounts) ==
  LET l1 == IF Truthy(user) THEN ReplaceAll(s, "{{user}}", user) ELSE s
      l2 == IF Truthy(role) THEN ReplaceAll(l1, "{{role}}", role) ELSE l1
      l3 == IF Truthy(profile) THEN ReplaceAll(l2, "{{profile}}", profile) ELSE l2
      l4 == IF Truthy(account) THEN ReplaceAll(l3, "{{account}}", account) ELSE l3
      accountLabel ==
        IF account \in DOMAIN accounts /\ Truthy(Get(accounts[account], "label"))
          THEN accounts[account].label
          ELSE accountName
  IN IF Truthy(accountName)
       THEN ReplaceAll(l4, "{{accountName}}", accountLabel)
       ELSE l4

sessionLabelSso(profile, user) ==
  IF profile.applicationName # "AWS Account"
    THEN OrElse(profile.profile.custom.label, profile.profile.name)
    ELSE buildLabel(user.custom.sessionLabelSso,
                    OrElse(user.custom.displayName, user.subject),
                    OrElse(profile.profile.custom.label, profile.profile.name),
                    Null,
                    profile.searchMetadata.AccountId,
                    profile.searchMetadata.AccountName,
                    user.custom.accounts)

----------------------------------------------------------------------------
(* createProfileUrl(user, appProfile), findUserByProfileId(profileId, users) *)

\* the destination leaves the tab's URL as it is
createProfileUrlRawDestination(user, appProfile, tabUrl) ==
  LET dir == "https://" \o user.managedActiveDirectoryId \o ".awsapps.com/start/#"
      accountId == IF "searchMetadata" \in DOMAIN appProfile
                     THEN appProfile.searchMetadata.AccountId
                     ELSE Undefined
      consoleUrl == dir \o "/console?account_id=" \o accountId
                        \o "&role_name=" \o appProfile.profile.name
  IN IF appProfile.profile.name = "Default"
       THEN dir \o "/saml/default/" \o encodeUriPlusParens(appProfile.name)
                \o "/" \o appProfile.id
       ELSE IF tabUrl # Undefined /\ MatchesConsoleUrl(tabUrl)
              THEN consoleUrl \o "&destination=" \o tabUrl
              ELSE consoleUrl

\* tabUrl is the url of the tab that tabs.query({currentWindow, active})
\* answers with, Undefined when the tab shows none
createProfileUrl(user, appProfile, tabUrl) ==
  LET dir == "https://" \o user.managedActiveDirectoryId \o ".awsapps.com/start/#"
      accountId == IF "searchMetadata" \in DOMAIN appProfile
                     THEN appProfile.searchMetadata.AccountId
                     ELSE Undefined
      consoleUrl == dir \o "/console?account_id=" \o accountId
                        \o "&role_name=" \o appProfile.profile.name
  IN IF appProfile.profile.name = "Default"
       THEN dir \o "/saml/default/" \o encodeUriPlusParens(appProfile.name)
                \o "/" \o appProfile.id
       ELSE IF tabUrl # Undefined /\ MatchesConsoleUrl(tabUrl)
              THEN consoleUrl \o "&destination=" \o EncodeURIComponent(tabUrl)
              ELSE consoleUrl

\* the positions of the users that have profileId among their appProfileIds
Owners(profileId, users) ==
  {i \in 1..Len(users) : profileId \in Range(users[i].appProfileIds)}

Min(S) == CHOOSE i \in S : \A j \in S : i <= j
Max(S) == CHOOSE i \in S : \A j \in S : i >= j

findUserFirstMatch(profileId, users) ==
  IF Owners(profileId, users) = {}
    THEN users[1]
    ELSE users[Min(Owners(profileId, users))]

\* users.forEach assigns every match and does not stop: the last owner is
\* left in user, users[0] when nobody owns the profile
findUserByProfileId(profileId, users) ==
  IF Owners(profileId, users) = {}
    THEN users[1]
    ELSE users[Max(Owners(profileId, users))]

----------------------------------------------------------------------------
(* navSelectedProfile(profile, user, users, settings), navCurrentTab(url) *)

\* Inputs: the users of the popup, each in its own directory
NavUser(u, subject, dir, profileIds) ==
  [userId |-> u, subject |-> subject, managedActiveDirectoryId |-> dir,
   appProfileIds |-> profileIds, custom |-> CustomWithAccount]

Alice == NavUser("u1", "alice", "d-1111", <<"p1">>)
Bob == NavUser("u2", "bob", "d-2222", <<"p2">>)
Carol == NavUser("u3", "carol", "d-3333", <<"p2", "p1">>)

\* the selected user and the list of all users
NavUserLists ==
  {<<Alice, <<Alice, Bob>>>>,
   <<Alice, <<Alice, Bob, Carol>>>>,
   <<Alice, <<Alice, Carol, Bob>>>>,
   <<Bob, <<Alice, Bob, Carol>>>>,
   <<Alice, <<Alice>>>>}

\* Inputs: the selected profile, before customizeProfiles
NavRawProfiles ==
  {[id |-> "ins-1", applicationName |-> "AWS Account", name |-> "prod (main)",
    profile |-> [id |-> "p2", name |-> n],
    searchMetadata |-> [AccountId |-> "111111111111", AccountName |-> "production"]] :
     n \in {"Admin", "Default"}}
  \cup
  {[id |-> "ins-2", applicationName |-> "AWS Account", name |-> "dev",
    profile |-> [id |-> "p1", name |-> "ReadOnly"],
    searchMetadata |-> [AccountId |-> "333333333333", AccountName |-> "dev"]]}
  \cup
  {[id |-> "ins-3", applicationName |-> "Slack", name |-> "Slack (team)!",
    profile |-> [id |-> "p2", name |-> n]] : n \in {"Default", "Guest"}}

\* Inputs: the platform and the settings navSelectedProfile reads
NavPlatforms ==
  {[platform |-> "chrome", firefoxContainers |-> TRUE, firefoxResumeContainer |-> TRUE,
    firefoxExpireMinsContainer |-> 480],
   [platform |-> "firefox", firefoxContainers |-> FALSE, firefoxResumeContainer |-> TRUE,
    firefoxExpireMinsContainer |-> 480],
   [platform |-> "firefox", firefoxContainers |-> TRUE, firefoxResumeContainer |-> FALSE,
    firefoxExpireMinsContainer |-> 480],
   [platform |-> "firefox", firefoxContainers |-> TRUE, firefoxResumeContainer |-> TRUE,
    firefoxExpireMinsContainer |-> 0],
   [platform |-> "firefox", firefoxContainers |-> TRUE, firefoxResumeContainer |-> TRUE,
    firefoxExpireMinsContainer |-> 480]}

NavSettings(p, showAll, navCurrent) ==
  Merge(DefaultSettingsLit,
        [firefoxContainers |-> p.firefoxContainers,
         firefoxResumeContainer |-> p.firefoxResumeContainer,
         firefoxExpireMinsContainer |-> p.firefoxExpireMinsContainer,
         showAllProfiles |-> showAll,
         navCurrentTab |-> navCurrent])

\* The browser: the URL of the active tab of the current window
TabUrls ==
  {"https://us-east-1.console.aws.amazon.com/ec2/home?region=us-east-1#Instances:",
   "https://s3.console.aws.amazon.com/s3/buckets?a=b&c=d e",
   "https://console.amazonaws-us-gov.com/",
   "https://console.aws.amazon.com/console/home",
   "https://us-gov-west-1.console.amazonaws-us-gov.com/ec2",
   "http://us-east-1.console.aws.amazon.com/ec2",
   "https://example.com/?u=https://s3.console.aws.amazon.com/",
   Undefined}

\* The browser: its containers, as left by earlier sessions under the label
\* of this one or under another name
ContainerLists(label) ==
  {<<>>,
   <<[name |-> "personal", cookieStoreId |-> "firefox-container-1"]>>,
   <<[name |-> label, cookieStoreId |-> "firefox-container-1"]>>,
   <<[name |-> label, cookieStoreId |-> "firefox-container-1"],
     [name |-> label, cookieStoreId |-> "firefox-container-2"]>>}

\* The browser: the tabs open in containers, besides the active tab
ContainerTab(i, c) ==
  [id |-> 10 + i, index |-> i, windowId |-> 1, cookieStoreId |-> c]

TabLists ==
  {<<>>,
   <<ContainerTab(1, "firefox-container-1")>>,
   <<ContainerTab(1, "firefox-container-1"), ContainerTab(2, "firefox-container-1")>>,
   <<ContainerTab(1, "firefox-container-2")>>}

\* the user navSelectedProfile goes on with
NavUserOf(profile, user, users, settings) ==
  IF settings.showAllProfiles /\ profile.profile.id \notin Range(user.appProfileIds)
    THEN findUserByProfileId(profile.profile.id, users)
    ELSE user

InitNav ==
  /\ store = [a \in Areas |-> EmptyObj]
  /\ pending = {}
  /\ now = 0
  /\ opsLeft = 0
  /\ defaultSettings = DefaultSettingsLit
  /\ defaultCustom = DefaultCustomLit
  /\ pc = "call"
  /\ op \in {[name |-> "navSelectedProfile",
              platform |-> p.platform,
              profile |-> CustomizeProfile(ul[1], raw),
              user |-> ul[1],
              users |-> ul[2],
              settings |-> NavSettings(p, showAll, navCurrent)] :
               p \in NavPlatforms, raw \in NavRawProfiles, ul \in NavUserLists,
               showAll \in BOOLEAN, navCurrent \in BOOLEAN}
  /\ ret = NoRet
  /\ last = NoOp
  /\ browser \in {[currentTab |-> [id |-> 1, url |-> url],
                   containers |-> cs,
                   tabs |-> ts,
                   created |-> <<>>,
                   queued |-> <<>>,
                   updated |-> <<>>,
                   highlighted |-> <<>>,
                   focused |-> <<>>,
                   messages |-> <<>>,
                   closed |-> FALSE] :
                    url \in TabUrls,
                    cs \in ContainerLists(
                            sessionLabelSso(op.profile,
                                            NavUserOf(op.profile, op.user, op.users, op.settings))),
                    ts \in TabLists}

\* if (nav === true) { ... window.close() }: navCurrentTab leaves its tab
\* query in flight, tabs.create goes to the browser at once
NavOpen(b, settings, url) ==
  IF settings.navCurrentTab
    THEN [b EXCEPT !.queued = Append(@, url), !.closed = TRUE]
    ELSE [b EXCEPT !.created = Append(@, url), !.closed = TRUE]

\* the start, up to the await of createProfileUrl
NavSelectedProfileStart ==
  /\ pc = "call"
  /\ op.name = "navSelectedProfile"
  /\ op' = Merge(op, [user |-> NavUserOf(op.profile, op.user, op.users, op.settings),
                      selected |-> op.user])
  /\ pc' = "nav_url"
  /\ UNCHANGED <<store, pending, now, opsLeft, defaultSettings, defaultCustom, ret, last, browser>>

\* createProfileUrl has answered: the containers are queried, or the
\* navigation goes ahead
NavCreateProfileUrl ==
  /\ pc = "nav_url"
  /\ LET profileUrl == createProfileUrl(op.user, op.profile, browser.currentTab.url)
     IN /\ op' = Merge(op, [profileUrl |-> profileUrl])
        /\ IF /\ op.platform = "firefox"
              /\ op.settings.firefoxContainers
              /\ op.settings.firefoxResumeContainer
             THEN pc' = "nav_containers" /\ UNCHANGED browser
             ELSE pc' = "done" /\ browser' = NavOpen(browser, op.settings, profileUrl)
  /\ UNCHANGED <<store, pending, now, opsLeft, defaultSettings, defaultCustom, ret, last>>

\* contextualIdentities.query({name}) has answered
NavQueryContainers ==
  /\ pc = "nav_containers"
  /\ LET label == sessionLabelSso(op.profile, op.user)
         containers == SelectSeq(browser.containers, LAMBDA c : c.name = label)
     IN /\ op' = Merge(op, [containers |-> containers])
        /\ IF Len(containers) >= 1
             THEN pc' = "nav_tabs" /\ UNCHANGED browser
             ELSE pc' = "done" /\ browser' = NavOpen(browser, op.settings, op.profileUrl)
  /\ UNCHANGED <<store, pending, now, opsLeft, defaultSettings, defaultCustom, ret, last>>

\* nav after the forEach over the tabs of the container
NavAlways(tabs) == TRUE

NavAfterTabs(tabs) == Len(tabs) = 0

RECURSIVE HighlightTabs(_, _, _, _)
HighlightTabs(b, tabs, settings, cookieStoreId) ==
  IF tabs = <<>> THEN b
  ELSE HighlightTabs(
         [b EXCEPT
            !.highlighted = Append(@, [windowId |-> Head(tabs).windowId,
                                       tabs |-> Head(tabs).index]),
            !.focused = Append(@, Head(tabs).windowId),
            !.messages = IF settings.firefoxExpireMinsContainer > 0
                           THEN Append(@, [action |-> "expireFirefoxContainer",
                                           cookieStoreId |-> cookieStoreId])
                           ELSE @],
         Tail(tabs), settings, cookieStoreId)

\* tabs.query({cookieStoreId}) has answered
NavHighlightTabs ==
  /\ pc = "nav_tabs"
  /\ LET cookieStoreId == op.containers[1].cookieStoreId
         tabs == SelectSeq(browser.tabs, LAMBDA t : t.cookieStoreId = cookieStoreId)
         highlighted == HighlightTabs(browser, tabs, op.settings, cookieStoreId)
     IN /\ op' = Merge(op, [tabs |-> tabs])
        /\ browser' = IF NavAfterTabs(tabs)
                        THEN NavOpen(highlighted, op.settings, op.profileUrl)
                        ELSE highlighted
  /\ pc' = "done"
  /\ UNCHANGED <<store, pending, now, opsLeft, defaultSettings, defaultCustom, ret, last>>

\* navCurrentTab's tabs.query has answered: the active tab is sent to the url
NavCurrentTabThen ==
  /\ browser.queued # <<>>
  /\ browser' = [browser EXCEPT
                   !.queued = Tail(@),
                   !.updated = Append(@, [tabId |-> browser.currentTab.id,
                                          url |-> Head(browser.queued)])]
  /\ UNCHANGED <<store, pending, now, opsLeft, defaultSettings, defaultCustom, pc, op, ret, last>>

NextNav ==
  \/ NavSelectedProfileStart
  \/ NavCreateProfileUrl
  \/ NavQueryContainers
  \/ NavHighlightTabs
  \/ NavCurrentTabThen

SpecNav == InitNav /\ [][NextNav]_vars

----------------------------------------------------------------------------
(* createProfileUrl and navSelectedProfile: properties *)

\* createProfileUrl has returned into navSelectedProfile
UrlReturned == "profileUrl" \in DOMAIN op

TabMatchesConsole ==
  browser.currentTab.url # Undefined /\ MatchesConsoleUrl(browser.currentTab.url)

SsoDirectoryForm(url) ==
  StartsWith(url, "https://" \o op.user.managedActiveDirectoryId
                    \o ".awsapps.com/start/#/saml/default/")

ConsoleFederationForm(url) ==
  StartsWith(url, "https://" \o op.user.managedActiveDirectoryId
                    \o ".awsapps.com/start/#/console?account_id=")

\* decodeURIComponent, for the codes of PercentCodes
RECURSIVE PercentDecode(_)
PercentDecode(s) ==
  IF s = "" THEN ""
  ELSE IF SubSeq(s, 1, 1) = "%"
    THEN (CHOOSE c \in DOMAIN PercentCodes : PercentCodes[c] = SubSeq(s, 1, 3))
         \o PercentDecode(SubSeq(s, 4, Len(s)))
    ELSE SubSeq(s, 1, 1) \o PercentDecode(SubSeq(s, 2, Len(s)))

\* url ends with a destination parameter that is percent-encoded and
\* decodes to target
CarriesDestination(url, target) ==
  \E i \in 1..(Len(url) - Len("&destination=") + 1) :
    /\ SubSeq(url, i, i + Len("&destination=") - 1) = "&destination="
    /\ LET d == SubSeq(url, i + Len("&destination="), Len(url))
       IN /\ Chars(d) \subseteq (UnreservedChars \cup {"%"})
          /\ PercentDecode(d) = target

NoDestination(url) == ~Includes(url, "destination=")

\* C7 as stated: the SSO-directory form for a profile named "Default", the
\* console-federation form for any other; a destination parameter carrying
\* the tab's URL whenever that URL matches the console pattern, and none
\* when it does not.
C7_DestinationWheneverTabMatches ==
  UrlReturned =>
    /\ IF op.profile.profile.name = "Default"
         THEN SsoDirectoryForm(op.profileUrl)
         ELSE ConsoleFederationForm(op.profileUrl)
    /\ IF TabMatchesConsole
         THEN CarriesDestination(op.profileUrl, browser.currentTab.url)
         ELSE NoDestination(op.profileUrl)

\* C7: createProfileUrl returns the SSO-directory form, without destination
\* parameter, for a profile named "Default"; for any other profile it returns
\* the console-federation form, ending with a percent-encoded destination
\* parameter that carries the active tab's URL when that URL matches the
\* console pattern, and without destination parameter when it does not.
C7_CreateProfileUrl ==
  UrlReturned =>
    IF op.profile.profile.name = "Default"
      THEN /\ SsoDirectoryForm(op.profileUrl)
           /\ NoDestination(op.profileUrl)
      ELSE /\ ConsoleFederationForm(op.profileUrl)
           /\ IF TabMatchesConsole
                THEN CarriesDestination(op.profileUrl, browser.currentTab.url)
                ELSE NoDestination(op.profileUrl)

\* a role of an account, selected while the active tab shows the console
C7_Witness ==
  /\ UrlReturned
  /\ op.profile.profile.name = "Admin"
  /\ TabMatchesConsole
  /\ Includes(op.profileUrl, "&role_name=Admin&destination=https%3A%2F%2F")

\* the selected profile is not one of the selected user's, and all profiles
\* are shown: navSelectedProfile looks for the owner
OwnerLookedUp ==
  /\ pc # "call"
  /\ op.settings.showAllProfiles
  /\ op.profile.profile.id \notin Range(op.selected.appProfileIds)

ProfileOwners == Owners(op.profile.profile.id, op.users)

\* the URL is built for user
UrlBuiltFor(user) ==
  /\ op.user = user
  /\ UrlReturned =>
       op.profileUrl = createProfileUrl(user, op.profile, browser.currentTab.url)

ContainerFound ==
  /\ op.platform = "firefox"
  /\ op.settings.firefoxContainers
  /\ op.settings.firefoxResumeContainer
  /\ "containers" \in DOMAIN op
  /\ Len(op.containers) >= 1

\* the tabs the browser has open in the first container found
FoundContainerTabs ==
  SelectSeq(browser.tabs, LAMBDA t : t.cookieStoreId = op.containers[1].cookieStoreId)

\* no request to create a tab or to navigate the active tab was made
NoNavigation ==
  /\ browser.created = <<>>
  /\ browser.queued = <<>>
  /\ browser.updated = <<>>

----------------------------------------------------------------------------
(* saveUser and queueIamLogin: what is stored when they complete (C11, C12) *)

\* saveUser(user, enableSync) has completed, nothing else called since
SaveUserCompleted == pc = "idle" /\ last.name = "saveUser"

\* C11: once saveUser has completed for a user that carries customization,
\* the customization record holds the customization passed (it was persisted
\* before the user record), and every stored user record has custom equal to
\* the empty object.
C11_CustomBeforeUser ==
  /\ SaveUserCompleted =>
       StoredCarries(last.area, KeyCustom(last.user.userId), last.user.custom)
  /\ \A a \in Areas, u \in UserIds :
       Has(a, KeyUser(u)) => store[a][KeyUser(u)].custom = EmptyObj

\* the promise queueIamLogin(role) returned has resolved, nothing else
\* called since
QueueIamLoginResolved == pc = "idle" /\ last.name = "queueIamLogin"

\* C12: when the promise of queueIamLogin(role) has resolved, the mapping
\* stored in the local area maps role.profileId to role, and no write to the
\* synchronized area was issued.
C12_IamUpsert ==
  QueueIamLoginResolved =>
    /\ last.role.profileId \in DOMAIN LoadIamLogins(store)
    /\ LoadIamLogins(store)[last.role.profileId] = last.role
    /\ \A w \in pending : w.area = "local"

----------------------------------------------------------------------------
(* loadData() and loadUsers(enableSync) called on their own, in a store     *)
(* that update and saveSettings have filled (C13, C14)                      *)

MaxDataOps == 3

InitData ==
  /\ store = [a \in Areas |-> EmptyObj]
  /\ pending = {}
  /\ now = 0
  /\ opsLeft = MaxDataOps
  /\ defaultSettings = DefaultSettingsLit
  /\ defaultCustom = DefaultCustomLit
  /\ pc = "idle"
  /\ op = NoOp
  /\ ret = NoRet
  /\ last = NoOp
  /\ browser = NoBrowser

\* loadData is called when no write is in flight
LoadDataStart ==
  /\ pc = "idle"
  /\ pending = {}
  /\ op' = [name |-> "loadData"]
  /\ pc' = "ld_iam"
  /\ ret' = NoRet
  /\ UNCHANGED <<store, pending, now, opsLeft, defaultSettings, defaultCustom, browser, last>>

\* const iamLogins = await this.loadIamLogins()
LoadDataIam ==
  /\ pc = "ld_iam"
  /\ op' = Merge(op, [iamLogins |-> LoadIamLogins(store)])
  /\ pc' = "ld_settings"
  /\ UNCHANGED <<store, pending, now, opsLeft, defaultSettings, defaultCustom, browser, ret, last>>

\* const settings = await this.loadSettings(); loadUsers is called
LoadDataSettings ==
  /\ pc = "ld_settings"
  /\ op' = Merge(op, [settings |-> LoadSettings(store, defaultSettings)])
  /\ pc' = "ld_ids"
  /\ UNCHANGED <<store, pending, now, opsLeft, defaultSettings, defaultCustom, browser, ret, last>>

\* loadUsers: the id list has been read; userIds.forEach calls loadUser for
\* each id, and each call runs up to its first storage read
LoadUsersIds ==
  /\ pc = "ld_ids"
  /\ LET ids == LoadUserIds(store)
     IN op' = Merge(op, [ids |-> ids,
                         tasks |-> [i \in 1..Len(ids) |->
                                      [userId |-> ids[i], stage |-> "getUser"]],
                         completed |-> <<>>])
  /\ pc' = "ld_users"
  /\ UNCHANGED <<store, pending, now, opsLeft, defaultSettings, defaultCustom, browser, ret, last>>

\* one of the loadUser calls gets its user record
LoadUsersGetUser ==
  /\ pc = "ld_users"
  /\ \E i \in 1..Len(op.tasks) :
       /\ op.tasks[i].stage = "getUser"
       /\ LET area == Area(op.settings.enableSync)
              key == KeyUser(op.tasks[i].userId)
              user == IF Has(area, key) THEN store[area][key] ELSE EmptyObj
          IN op' = [op EXCEPT !.tasks[i] =
                      [userId |-> @.userId, stage |-> "getCustom", user |-> user]]
       /\ UNCHANGED <<store, pending, now, opsLeft, defaultSettings, defaultCustom, browser, pc, ret, last>>

\* one of the loadUser calls gets its customization and resolves
LoadUsersGetCustom ==
  /\ pc = "ld_users"
  /\ \E i \in 1..Len(op.tasks) :
       /\ op.tasks[i].stage = "getCustom"
       /\ LET area == Area(op.settings.enableSync)
              val == Merge(op.tasks[i].user,
                           [custom |-> LoadCustom(store, area, op.tasks[i].userId, defaultCustom)])
          IN op' = [op EXCEPT !.tasks[i] =
                                 [userId |-> @.userId, stage |-> "done", val |-> val],
                              !.completed = Append(@, i)]
       /\ UNCHANGED <<store, pending, now, opsLeft, defaultSettings, defaultCustom, browser, pc, ret, last>>

\* the results in the order the loadUser calls resolved
LoadUsersResultAsCompleted(tasks, completed) ==
  [i \in 1..Len(tasks) |-> tasks[completed[i]].val]

\* Promise.all(users): the results in the order of the promises
LoadUsersResult(tasks, completed) ==
  [i \in 1..Len(tasks) |-> tasks[i].val]

\* users.map((u) => u.appProfileIds).flat(1), deduplicated by new Set; a
\* user without the property contributes undefined
RECURSIVE FlatProfileIds(_)
FlatProfileIds(users) ==
  IF users = <<>> THEN <<>>
  ELSE (IF HasProfileIds(Head(users)) THEN Head(users).appProfileIds ELSE <<Undefined>>)
       \o FlatProfileIds(Tail(users))

\* what storage.local.get(apId) can answer with, as filtered and parsed by
\* loadData: the record of a stored id, nothing for an id without record;
\* get(undefined) answers with the whole area, of which Object.keys(ap)[0]
\* picks the record of the first key, whichever the browser puts first
ProfileAnswers(st, apId) ==
  IF apId = Undefined
    THEN IF DOMAIN st["local"] = {} THEN {<<>>}
         ELSE {<<st["local"][k]>> : k \in DOMAIN st["local"]}
    ELSE IF KeyProfile(apId) \in DOMAIN st["local"]
           THEN {<<st["local"][KeyProfile(apId)]>>}
           ELSE {<<>>}

\* the lists appProfiles can be, for the ids in order
RECURSIVE AppProfilesOf(_, _)
AppProfilesOf(st, apIds) ==
  IF apIds = <<>> THEN {<<>>}
  ELSE {a \o rest : a \in ProfileAnswers(st, Head(apIds)),
                    rest \in AppProfilesOf(st, Tail(apIds))}

\* the object loadData resolves with; updatedAt is left out where
\* users[0].updatedAt is undefined
LoadDataResult(o, users, appProfiles) ==
  Merge([appProfiles |-> appProfiles, settings |-> o.settings, users |-> users,
         iamLogins |-> o.iamLogins],
        IF Len(users) = 0 THEN [updatedAt |-> 0]
        ELSE IF "updatedAt" \in DOMAIN users[1]
          THEN [updatedAt |-> users[1].updatedAt]
          ELSE EmptyObj)

\* every loadUser has resolved: loadUsers returns, loadData sorts the users
\* and asks for the profiles
LoadUsersDone ==
  /\ pc = "ld_users"
  /\ \A i \in 1..Len(op.tasks) : op.tasks[i].stage = "done"
  /\ LET loaded == LoadUsersResult(op.tasks, op.completed)
     IN \E users \in SortedByUpdatedAt(loaded) :
          op' = Merge(op, [loaded |-> loaded, users |-> users,
                           apIds |-> Dedupe(FlatProfileIds(users))])
  /\ pc' = "ld_profiles"
  /\ UNCHANGED <<store, pending, now, opsLeft, defaultSettings, defaultCustom, browser, ret, last>>

\* Promise.all(appProfiles) has resolved: loadData returns
LoadDataProfiles ==
  /\ pc = "ld_profiles"
  /\ \E aps \in AppProfilesOf(store, op.apIds) :
       ret' = [kind |-> "data", val |-> LoadDataResult(op, op.users, aps)]
  /\ pc' = "idle"
  /\ UNCHANGED <<store, pending, now, opsLeft, defaultSettings, defaultCustom, browser, op, last>>

NextData ==
  \/ ApplyPending
  \/ UpdateStart \/ UpdateThen
  \/ SaveSettingsStart \/ SaveSettingsDone
  \/ LoadDataStart \/ LoadDataIam \/ LoadDataSettings
  \/ LoadUsersIds \/ LoadUsersGetUser \/ LoadUsersGetCustom \/ LoadUsersDone
  \/ LoadDataProfiles

SpecData == InitData /\ [][NextData]_vars

\* loadUsers has returned into loadData
LoadUsersReturned == pc = "ld_profiles"

\* C13: loadUsers issues one loadUser per id of the synchronized id list and
\* returns one result per id, in the order of the list, in whatever order
\* the loadUser calls resolved.
C13_LoadUsersInListOrder ==
  LoadUsersReturned =>
    /\ op.ids = LoadUserIds(store)
    /\ Len(op.tasks) = Len(op.ids)
    /\ Len(op.loaded) = Len(op.ids)
    /\ \A i \in 1..Len(op.ids) :
         /\ op.tasks[i].userId = op.ids[i]
         /\ op.loaded[i] = LoadUser(store, Area(op.settings.enableSync),
                                    op.ids[i], defaultCustom)

\* two users with different records, the second one's loadUser resolving first
C13_Witness ==
  /\ LoadUsersReturned
  /\ Len(op.ids) = 2
  /\ op.completed = <<2, 1>>
  /\ "userId" \in DOMAIN op.loaded[1]
  /\ "userId" \in DOMAIN op.loaded[2]
  /\ op.loaded[1].userId = op.ids[1]
  /\ op.loaded[1] # op.loaded[2]

\* loadData has returned
LoadDataReturned == pc = "idle" /\ ret.kind = "data"

\* the profile ids the returned users reference that have a stored record
StoredReferenced ==
  {p \in ProfileIds :
     /\ KeyProfile(p) \in DOMAIN store["local"]
     /\ \E i \in 1..Len(ret.val.users) : p \in Range(ProfileIdsOf(ret.val.users[i]))}

\* C14: loadData returns the users sorted by updatedAt descending, an
\* overall updatedAt equal to the greatest updatedAt of the users (0 without
\* users), and in appProfiles exactly one entry for each referenced profile
\* id that has a stored record, and nothing else.
C14_LoadData ==
  LoadDataReturned =>
    LET users == ret.val.users
        aps == ret.val.appProfiles
    IN /\ \A i \in 1..Len(users) : "updatedAt" \in DOMAIN users[i]
       /\ \A i \in 1..(Len(users) - 1) : users[i].updatedAt >= users[i + 1].updatedAt
       /\ "updatedAt" \in DOMAIN ret.val
       /\ IF Len(users) = 0 THEN ret.val.updatedAt = 0
          ELSE \A i \in 1..Len(users) : ret.val.updatedAt >= users[i].updatedAt
       /\ \A i \in 1..Len(aps) :
            "profile" \in DOMAIN aps[i] /\ aps[i].profile.id \in StoredReferenced
       /\ \A i, j \in 1..Len(aps) : aps[i].profile.id = aps[j].profile.id => i = j
       /\ \A p \in StoredReferenced : \E i \in 1..Len(aps) : aps[i].profile.id = p

-----------------------------------------------------------------------------
(* navSelectedProfile: the navigation request and the closing of the popup *)

\* the urls of the requests tabs.create and tabs.update the browser has received
NavigationRequests ==
  browser.created \o [i \in 1..Len(browser.updated) |-> browser.updated[i].url]

\* C15: in navSelectedProfile, once the popup is closed the browser has
\* received exactly one navigation request, either tabs.update for the
\* current tab (settings.navCurrentTab) or tabs.create, and it carries the
\* profile URL: the request is issued before window.close().
C15_RequestBeforeClose ==
  browser.closed =>
    /\ NavigationRequests = <<op.profileUrl>>
    /\ IF op.settings.navCurrentTab
         THEN browser.created = <<>>
         ELSE browser.updated = <<>>

-----------------------------------------------------------------------------
(* The records loadSettings and loadUser hand out, as objects: a caller     *)
(* that writes into the record it was given writes into every object that   *)
(* record shares with this.defaultSettings or this.defaultCustom            *)

\* what a caller assigns in the record it was given: a property of the
\* record, or a property of one of its nested objects
SettingsWrites ==
  { [path |-> <<"iconColor">>, val |-> "blue"],
    [path |-> <<"tableSettings", "sortApp">>, val |-> "asc"] }

CustomWrites ==
  { [path |-> <<"displayName">>, val |-> "work"],
    [path |-> <<"hotkeys", "openProfile1">>, val |-> "p1"] }

\* rec.a = val, or rec.a.b = val
Assign(rec, w) ==
  IF Len(w.path) = 1
    THEN [rec EXCEPT ![w.path[1]] = w.val]
    ELSE [rec EXCEPT ![w.path[1]] = [@ EXCEPT ![w.path[2]] = w.val]]

\* the object written to is the default record itself (nothing was stored,
\* so the default was returned), or a nested object of the default record
\* (the stored record lacked the key, so the backfill copied the reference)
SharedWithDefault(hadRecord, stored, w) ==
  \/ ~hadRecord
  \/ Len(w.path) = 2 /\ w.path[1] \notin DOMAIN stored

\* a caller of loadSettings writes into the settings it was given
CallerWritesSettings ==
  /\ pc = "idle"
  /\ ret.kind = "settings"
  /\ \E w \in SettingsWrites :
       /\ ret' = Merge([ret EXCEPT !.val = Assign(@, w)], [written |-> TRUE])
       /\ defaultSettings' = IF SharedWithDefault(ret.hadRecord, ret.stored, w)
                               THEN Assign(defaultSettings, w)
                               ELSE defaultSettings
  /\ UNCHANGED <<store, pending, now, opsLeft, defaultCustom, browser, pc, op, last>>

\* a caller of loadUser writes into the custom block it was given
CallerWritesCustom ==
  /\ pc = "idle"
  /\ ret.kind = "user"
  /\ \E w \in CustomWrites :
       /\ ret' = Merge([ret EXCEPT !.val.custom = Assign(@, w)], [written |-> TRUE])
       /\ defaultCustom' = IF SharedWithDefault(ret.hadCustom, ret.stored, w)
                             THEN Assign(defaultCustom, w)
                             ELSE defaultCustom
  /\ UNCHANGED <<store, pending, now, opsLeft, defaultSettings, browser, pc, op, last>>

NextAlias ==
  \/ NextLoad
  \/ CallerWritesSettings
  \/ CallerWritesCustom

SpecAlias == InitLoad /\ [][NextAlias]_vars

\* a load has returned and its caller has not written into the record
FreshlyLoaded(kind) ==
  pc = "idle" /\ ret.kind = kind /\ "written" \notin DOMAIN ret

\* C16: the hard-coded defaults are never the live object returned: whatever
\* callers write into the records loadSettings and loadUser gave them, the
\* default settings and the default customization stay as hard-coded, and a
\* later load that finds no stored record returns the hard-coded values.
C16_DefaultsNeverLive ==
  /\ defaultSettings = DefaultSettingsLit
  /\ defaultCustom = DefaultCustomLit
  /\ (FreshlyLoaded("settings") /\ ~ret.hadRecord) => ret.val = DefaultSettingsLit
  /\ (FreshlyLoaded("user") /\ ~ret.hadCustom) => ret.val.custom = DefaultCustomLit

-----------------------------------------------------------------------------
(* removeUser when a storage call fails: every call is awaited and nothing  *)
(* is caught, so the rejection ends removeUser where it stands              *)

MaxFailOps == 3

InitFail ==
  /\ store = [a \in Areas |-> EmptyObj]
  /\ pending = {}
  /\ now = 0
  /\ opsLeft = MaxFailOps
  /\ defaultSettings = DefaultSettingsLit
  /\ defaultCustom = DefaultCustomLit
  /\ pc = "idle"
  /\ op = NoOp
  /\ ret = NoRet
  /\ last = NoOp
  /\ browser = NoBrowser

\* the awaited storage call removeUser is waiting for at pc, if it makes one
\* there: the conditional calls are made only when their test passes
RemoveUserAwaits(stage) ==
  CASE stage \in {"rm_loadUser", "rm_removeKeys", "rm_loadIam",
                  "rm_loadList", "rm_saveList", "rm_loadSettings"} -> TRUE
    [] stage = "rm_profiles" -> Len(ProfileIdsOf(op.user)) > 0
    [] stage = "rm_saveIam" -> HasProfileIds(op.user)
    [] OTHER -> FALSE

\* the promise of the awaited call rejects: removeUser's own promise rejects
\* with it, and none of its remaining statements runs
RemoveUserRejects ==
  /\ op.name = "removeUser"
  /\ RemoveUserAwaits(pc)
  /\ ret' = [kind |-> "rejected", at |-> pc]
  /\ pc' = "idle"
  /\ UNCHANGED <<store, pending, now, opsLeft, defaultSettings, defaultCustom, browser, op, last>>

\* this.saveSettings(settings) rejects: the settings were loaded and, where
\* the test passed, assigned to before the call
RemoveUserSaveSettingsRejects ==
  /\ pc = "rm_loadSettings"
  /\ LET settings == LoadSettings(store, defaultSettings)
         hit == settings.defaultUser = op.userId \/ settings.lastUserId = op.userId
     IN /\ hit
        /\ defaultSettings' = IF ~Has("sync", KeySettings)
                                THEN RemoveUserSettings(settings, op)
                                ELSE defaultSettings
  /\ ret' = [kind |-> "rejected", at |-> "rm_saveSettings"]
  /\ pc' = "idle"
  /\ UNCHANGED <<store, pending, now, opsLeft, defaultCustom, browser, op, last>>

NextFail ==
  \/ ApplyPending
  \/ UpdateStart \/ UpdateThen
  \/ SaveSettingsStart \/ SaveSettingsDone
  \/ QueueIamLoginStart \/ QueueIamLoginThen
  \/ RemoveUserStart \/ RemoveUserLoadUser \/ RemoveUserRemoveKeys
  \/ RemoveUserProfiles \/ RemoveUserLoadIam \/ RemoveUserSaveIam
  \/ RemoveUserLoadList \/ RemoveUserSaveList \/ RemoveUserSettingsStep
  \/ RemoveUserRejects \/ RemoveUserSaveSettingsRejects

SpecFail == InitFail /\ [][NextFail]_vars

\* removeUser is under way, or a storage call of it has failed
RemoveUserRejected == pc = "idle" /\ ret.kind = "rejected" /\ op.name = "removeUser"

RemoveUserUnderWay ==
  /\ op.name = "removeUser"
  /\ pc \in {"rm_loadUser", "rm_removeKeys", "rm_profiles", "rm_loadIam",
             "rm_saveIam", "rm_loadList", "rm_saveList", "rm_loadSettings"}

\* the call removeUser has reached, or failed at
RemoveUserStage == IF pc = "idle" THEN ret.at ELSE pc

\* the stages that come after each of the storage mutations
AfterKeys ==
  {"rm_profiles", "rm_loadIam", "rm_saveIam", "rm_loadList", "rm_saveList",
   "rm_loadSettings", "rm_saveSettings"}
AfterProfiles ==
  {"rm_loadIam", "rm_saveIam", "rm_loadList", "rm_saveList",
   "rm_loadSettings", "rm_saveSettings"}
AfterIam == {"rm_loadList", "rm_saveList", "rm_loadSettings", "rm_saveSettings"}
AfterList == {"rm_loadSettings", "rm_saveSettings"}

\* the user removeUser loaded at its start
RemovedUser == LoadUser(op.before, op.area, op.userId, DefaultCustomLit)

\* the store removeUser leaves when it has got as far as `stage`
StoreAtStage(stage) ==
  LET s1 == IF stage \in AfterKeys
              THEN RemoveKeys(op.before, op.area,
                              {KeyUser(op.userId), KeyCustom(op.userId)})
              ELSE op.before
      s2 == IF stage \in AfterProfiles
              THEN RemoveKeys(s1, "local",
                              {KeyProfile(p) : p \in Range(ProfileIdsOf(RemovedUser))})
              ELSE s1
      s3 == IF stage \in AfterIam /\ HasProfileIds(RemovedUser)
              THEN SetKey(s2, [area |-> "local", key |-> KeyIam,
                               val |-> Stamped(Without(LoadIamLogins(op.before),
                                                       Range(ProfileIdsOf(RemovedUser))),
                                               now)])
              ELSE s2
      s4 == IF stage \in AfterList
              THEN SetKey(s3, [area |-> "sync", key |-> KeyUsers,
                               val |-> Stamped([users |-> FilterOut(LoadUserIds(op.before),
                                                                    op.userId)],
                                               now)])
              ELSE s3
  IN s4

\* C17: removeUser makes its storage mutations one after the other, in the
\* order user and customization records, owned profile records, IAM-login
\* mapping, global user-id list, settings; when a storage call fails the
\* mutations of the earlier steps stay applied, no later step is performed
\* and the failure reaches the caller: the store is that of the steps before
\* the failing call, nothing is rolled back.
C17_SequentialNoRollback ==
  (RemoveUserUnderWay \/ RemoveUserRejected) => store = StoreAtStage(RemoveUserStage)

\* the write of the user-id list failed for a listed user with stored
\* records, a stored profile and a remembered IAM login: the records, the
\* profile and the login are gone, the id is still listed
C17_Witness ==
  /\ RemoveUserRejected
  /\ ret.at = "rm_saveList"
  /\ KeyUser(op.userId) \in DOMAIN op.before[op.area]
  /\ ~Has(op.area, KeyUser(op.userId))
  /\ \E p \in Range(ProfileIdsOf(RemovedUser)) :
       /\ KeyProfile(p) \in DOMAIN op.before["local"]
       /\ ~Has("local", KeyProfile(p))
       /\ p \in DOMAIN LoadIamLogins(op.before)
       /\ p \notin DOMAIN LoadIamLogins(store)
  /\ op.userId \in Range(LoadUserIds(store))

-----------------------------------------------------------------------------
(* update(user): the global user-id list *)

\* update's callback has run: its writes are landing, or have landed
UpdateCallbackDone == pc = "idle" /\ op.name = "update"

NoDuplicates(ids) == \A i, j \in 1..Len(ids) : ids[i] = ids[j] => i = j

\* C18: update(user) never removes a user id from the global user-id list:
\* no write of update takes an id out of the stored list, and once its
\* writes have landed the list holds user.userId, holds no id twice and
\* holds nothing that is not a user id, also when a listed id has no user
\* record in the storage area settings.enableSync selects.
C18_UpdateKeepsIds ==
  /\ [](UpdateCallbackDone /\ pending = {} =>
          /\ op.user.userId \in Range(LoadUserIds(store))
          /\ NoDuplicates(LoadUserIds(store))
          /\ Range(LoadUserIds(store)) \subseteq UserIds)
  /\ [][UpdateCallbackDone =>
          Range(LoadUserIds(store)) \cap UserIds \subseteq Range(LoadUserIds(store'))]_vars

-----------------------------------------------------------------------------
(* The IAM-login mapping as loadIamLogins returns it *)

\* C19: after any calls of queueIamLogin and removeUser, every key of the
\* mapping loadIamLogins returns is a profile id, and its value is an IAM
\* role whose profileId is that key: the mapping has no other key.
C19_IamKeysAreProfileIds ==
  \A k \in DOMAIN LoadIamLogins(store) :
     /\ k \in ProfileIds
     /\ "profileId" \in DOMAIN LoadIamLogins(store)[k]
     /\ LoadIamLogins(store)[k].profileId = k

-----------------------------------------------------------------------------
(* removeUser: the users that remain *)

\* the profile ids in the appProfileIds of the record user u had, in the
\* area removeUser was called for, before the call
ReferencedBefore(u) ==
  Range(ProfileIdsOf(LoadUser(last.before, last.area, u, DefaultCustomLit)))

\* C20: removeUser(u) leaves the data of the remaining users intact: for
\* every other user still in the global id list, each profile id of that
\* user's appProfileIds that had a stored profile record before the call
\* still has that record, and an IAM login keyed by such an id is still in
\* the mapping, also when the removed user references the same profile id.
C20_RemainingUsersIntact ==
  RemoveUserCompleted =>
    \A v \in (Range(LoadUserIds(store)) \cap UserIds) \ {last.userId} :
      \A p \in ReferencedBefore(v) :
        /\ KeyProfile(p) \in DOMAIN last.before["local"] =>
             /\ Has("local", KeyProfile(p))
             /\ store["local"][KeyProfile(p)] = last.before["local"][KeyProfile(p)]
        /\ p \in DOMAIN LoadIamLogins(last.before) =>
             /\ p \in DOMAIN LoadIamLogins(store)
             /\ LoadIamLogins(store)[p] = LoadIamLogins(last.before)[p]

-----------------------------------------------------------------------------
(* Two calls that touch the IAM-login mapping, started together: each runs  *)
(* from one storage suspension point to the next, the two in any order      *)

MaxIamOps == 3

InitIam ==
  /\ store = [a \in Areas |-> EmptyObj]
  /\ pending = {}
  /\ now = 0
  /\ opsLeft = MaxIamOps
  /\ defaultSettings = DefaultSettingsLit
  /\ defaultCustom = DefaultCustomLit
  /\ pc = "idle"
  /\ op = NoOp
  /\ ret = NoRet
  /\ last = NoOp
  /\ browser = NoBrowser

\* the second call: one that leaves role.profileId of the first alone
OtherIamCalls(p) ==
  {[name |-> "queueIamLogin", stage |-> "qi_then", role |-> IamRoleOf(q)] :
      q \in ProfileIds \ {p}}
  \cup {[name |-> "removeIamLogin", stage |-> "ri_load", profileId |-> q] :
      q \in ProfileIds \ {p}}
  \cup {[name |-> "removeUser", stage |-> "rm_loadUser", userId |-> u,
         area |-> Area(CallerEnableSync)] :
      u \in {v \in UserIds :
               p \notin Range(ProfileIdsOf(LoadUser(store, Area(CallerEnableSync),
                                                    v, defaultCustom)))}}

\* queueIamLogin(role) and a second call are made one after the other,
\* before any storage request of the first has been answered
IamCallsStart ==
  \E p \in ProfileIds :
    \E c \in OtherIamCalls(p) :
      /\ CanMutate
      /\ now' = now + 1
      /\ opsLeft' = opsLeft - 1
      /\ op' = [name |-> "iamCalls",
                calls |-> <<[name |-> "queueIamLogin", stage |-> "qi_then",
                             role |-> IamRoleOf(p)], c>>,
                before |-> store]
      /\ pc' = "calls"
      /\ ret' = NoRet
      /\ last' = NoOp
      /\ UNCHANGED <<store, pending, defaultSettings, defaultCustom, browser>>

\* call i is of operation `name` and waits at `stage`
CallAt(i, name, stage) ==
  /\ pc = "calls"
  /\ op.calls[i].name = name
  /\ op.calls[i].stage = stage

\* call i goes on to `stage`, with the locals `more`
Continue(i, stage, more) ==
  [op EXCEPT !.calls[i] = Merge(Merge(@, more), [stage |-> stage])]

\* queueIamLogin: loadIamLogins() has resolved, the callback sets the entry
\* and calls saveData without returning its promise
CallQueueIamLoginThen(i) ==
  /\ CallAt(i, "queueIamLogin", "qi_then")
  /\ pending' = pending
       \cup {SaveData("local", KeyIam,
                      Merge(LoadIamLogins(store),
                            (op.calls[i].role.profileId :> op.calls[i].role)), now)}
  /\ op' = Continue(i, "done", EmptyObj)
  /\ UNCHANGED <<store, now, opsLeft, defaultSettings, defaultCustom, browser, pc, ret, last>>

\* removeIamLogin: const logins = await this.loadIamLogins(); delete
CallRemoveIamLoginLoad(i) ==
  /\ CallAt(i, "removeIamLogin", "ri_load")
  /\ op' = Continue(i, "ri_save",
                    [logins |-> Without(LoadIamLogins(store), {op.calls[i].profileId})])
  /\ UNCHANGED <<store, pending, now, opsLeft, defaultSettings, defaultCustom, browser, pc, ret, last>>

\* removeIamLogin: return this.saveData(iam-logins, logins, local)
CallRemoveIamLoginSave(i) ==
  /\ CallAt(i, "removeIamLogin", "ri_save")
  /\ store' = SetKey(store, SaveData("local", KeyIam, op.calls[i].logins, now))
  /\ op' = Continue(i, "done", EmptyObj)
  /\ UNCHANGED <<pending, now, opsLeft, defaultSettings, defaultCustom, browser, pc, ret, last>>

\* removeUser, from one await to the next
CallRemoveUserLoadUser(i) ==
  /\ CallAt(i, "removeUser", "rm_loadUser")
  /\ op' = Continue(i, "rm_removeKeys",
                    [user |-> LoadUser(store, op.calls[i].area, op.calls[i].userId,
                                       defaultCustom)])
  /\ UNCHANGED <<store, pending, now, opsLeft, defaultSettings, defaultCustom, browser, pc, ret, last>>

CallRemoveUserRemoveKeys(i) ==
  /\ CallAt(i, "removeUser", "rm_removeKeys")
  /\ store' = RemoveKeys(store, op.calls[i].area, RemoveUserKeys(op.calls[i]))
  /\ op' = Continue(i, "rm_profiles", EmptyObj)
  /\ UNCHANGED <<pending, now, opsLeft, defaultSettings, defaultCustom, browser, pc, ret, last>>

CallRemoveUserProfiles(i) ==
  /\ CallAt(i, "removeUser", "rm_profiles")
  /\ store' = RemoveKeys(store, "local",
                         {KeyProfile(p) : p \in Range(ProfileIdsOf(op.calls[i].user))})
  /\ op' = Continue(i, "rm_loadIam", EmptyObj)
  /\ UNCHANGED <<pending, now, opsLeft, defaultSettings, defaultCustom, browser, pc, ret, last>>

CallRemoveUserLoadIam(i) ==
  /\ CallAt(i, "removeUser", "rm_loadIam")
  /\ op' = Continue(i, "rm_saveIam", [iamLogins |-> LoadIamLogins(store)])
  /\ UNCHANGED <<store, pending, now, opsLeft, defaultSettings, defaultCustom, browser, pc, ret, last>>

CallRemoveUserSaveIam(i) ==
  /\ CallAt(i, "removeUser", "rm_saveIam")
  /\ store' = IF HasProfileIds(op.calls[i].user)
                THEN SetKey(store, SaveData("local", KeyIam,
                                            RemoveUserIam(op.calls[i]), now))
                ELSE store
  /\ op' = Continue(i, "rm_loadList", EmptyObj)
  /\ UNCHANGED <<pending, now, opsLeft, defaultSettings, defaultCustom, browser, pc, ret, last>>

CallRemoveUserLoadList(i) ==
  /\ CallAt(i, "removeUser", "rm_loadList")
  /\ op' = Continue(i, "rm_saveList",
                    [updatedUsers |-> FilterOut(LoadUserIds(store), op.calls[i].userId)])
  /\ UNCHANGED <<store, pending, now, opsLeft, defaultSettings, defaultCustom, browser, pc, ret, last>>

CallRemoveUserSaveList(i) ==
  /\ CallAt(i, "removeUser", "rm_saveList")
  /\ store' = SetKey(store, SaveData("sync", KeyUsers,
                                     [users |-> op.calls[i].updatedUsers], now))
  /\ op' = Continue(i, "rm_loadSettings", EmptyObj)
  /\ UNCHANGED <<pending, now, opsLeft, defaultSettings, defaultCustom, browser, pc, ret, last>>

CallRemoveUserSettingsStep(i) ==
  /\ CallAt(i, "removeUser", "rm_loadSettings")
  /\ LET settings == LoadSettings(store, defaultSettings)
         hit == \/ settings.defaultUser = op.calls[i].userId
                \/ settings.lastUserId = op.calls[i].userId
     IN /\ store' = IF hit
                      THEN SetKey(store, SaveData("sync", KeySettings,
                                                  RemoveUserSettings(settings, op.calls[i]),
                                                  now))
                      ELSE store
        /\ defaultSettings' = IF hit /\ ~Has("sync", KeySettings)
                                THEN RemoveUserSettings(settings, op.calls[i])
                                ELSE defaultSettings
  /\ op' = Continue(i, "done", EmptyObj)
  /\ UNCHANGED <<pending, now, opsLeft, defaultCustom, browser, pc, ret, last>>

\* both calls have run to their end and every write they issued has landed
IamCallsFinish ==
  /\ pc = "calls"
  /\ \A i \in 1..2 : op.calls[i].stage = "done"
  /\ pending = {}
  /\ pc' = "idle"
  /\ last' = op
  /\ UNCHANGED <<store, pending, now, opsLeft, defaultSettings, defaultCustom, browser, op, ret>>

NextIam ==
  \/ ApplyPending
  \/ UpdateStart \/ UpdateThen
  \/ QueueIamLoginStart \/ QueueIamLoginThen
  \/ IamCallsStart
  \/ \E i \in 1..2 : CallQueueIamLoginThen(i)
  \/ \E i \in 1..2 : CallRemoveIamLoginLoad(i)
  \/ \E i \in 1..2 : CallRemoveIamLoginSave(i)
  \/ \E i \in 1..2 : CallRemoveUserLoadUser(i)
  \/ \E i \in 1..2 : CallRemoveUserRemoveKeys(i)
  \/ \E i \in 1..2 : CallRemoveUserProfiles(i)
  \/ \E i \in 1..2 : CallRemoveUserLoadIam(i)
  \/ \E i \in 1..2 : CallRemoveUserSaveIam(i)
  \/ \E i \in 1..2 : CallRemoveUserLoadList(i)
  \/ \E i \in 1..2 : CallRemoveUserSaveList(i)
  \/ \E i \in 1..2 : CallRemoveUserSettingsStep(i)
  \/ IamCallsFinish

SpecIam == InitIam /\ [][NextIam]_vars

\* the two calls have finished, nothing else called since
IamCallsFinished == pc = "idle" /\ last.name = "iamCalls"

\* the stored mapping shows what call c did
ReflectsCall(c) ==
  CASE c.name = "queueIamLogin" ->
         /\ c.role.profileId \in DOMAIN LoadIamLogins(store)
         /\ LoadIamLogins(store)[c.role.profileId] = c.role
    [] c.name = "removeIamLogin" ->
         c.profileId \notin DOMAIN LoadIamLogins(store)
    [] c.name = "removeUser" ->
         \A p \in Range(ProfileIdsOf(c.user)) : p \notin DOMAIN LoadIamLogins(store)

\* C21: no update of the IAM-login mapping is lost: when queueIamLogin and a
\* second call for another profile id (queueIamLogin, removeIamLogin or
\* removeUser) interleave at their storage suspension points, the mapping
\* stored after both have finished reflects both operations.
C21_NoLostIamUpdate ==
  IamCallsFinished => \A i \in 1..2 : ReflectsCall(last.calls[i])

====
